---- MODULE Spec2Model ----
(* Model of the vibeline pipeline framework: Pipeline definition        *)
(* (core.py), the execution engine (engine.py), the two Step classes    *)
(* (core.py, models.py) and the schedule trigger (triggers/cron.py).    *)
EXTENDS Integers, Sequences, FiniteSets, TLC

\* ---------------------------------------------------------------------
\* Bounds and input domains
\* ---------------------------------------------------------------------

\* Longest depends_on list passed to add_step.
MaxDeps == 2

\* The clock stops here.
MaxTime == 250

\* A trigger is constructed no later than this.
MaxCreate == 61

\* The largest number of triggers in the trigger registry.
MaxTriggers == 3

\* Most entries the watcher leaves waiting on the event queue
MaxQueue == 2

\* Most triggers in the registry of a monitor whose threads are followed
MaxMonitorTriggers == 2

\* Request threads of the listener that are followed at the same time.
MaxHandlers == 2

\* Step names used by the callers of add_step.
Names == {"a", "b", "c"}

\* The two Step classes of the repository.
StepImpls == {"core", "models"}

\* run_id arguments of run(): None or a caller-chosen id.
RunIds == {"None", "r1"}

\* parameters arguments of run(): None or a non-empty dict.
ParamArgs == {"None", "{input_file: data.csv}"}

\* Step names a step function may put in a StepExecutionError it raises itself.
SeeNames == {"a", "nested"}

\* What a step function does when called: return a value, raise an
\* ordinary Exception, or raise a StepExecutionError of its own.
\* (BaseException subclasses such as KeyboardInterrupt are outside the model.)
Outcomes == {"return", "raise", "raise_see"}

\* Lists of at most n distinct elements of S.
SeqsUpTo(S, n) ==
    {s \in UNION {[1..k -> S] : k \in 0..n} : \A i, j \in DOMAIN s : s[i] = s[j] => i = j}

Range(s) == {s[i] : i \in 1..Len(s)}

\* ---------------------------------------------------------------------
\* State
\* ---------------------------------------------------------------------
VARIABLES
    pipeline,   \* the Pipeline object: _steps, _dependencies, _reverse_dependencies
    lastAdd,    \* the most recent add_step call: the step's name, the names in depends_on
                \* that were not registered before the call, the exception raised
    run,        \* the engine run in progress or last finished: context, order, position, error
    now,        \* wall clock, in seconds
    trigger,    \* the CronTrigger object
    lastCheck,  \* the check() call made at the current instant, if any
    poller,     \* the poll loop: whether it has ticked, and when its previous tick was
    evtrigger,  \* a FileWatcherTrigger or WebhookTrigger object
    lastCall,   \* the most recent call on evtrigger and what it returned
    pipeline_registry,  \* TriggerMonitor.pipeline_registry: pipeline name -> Pipeline
    trigger_registry,   \* TriggerRegistry._triggers, in insertion order
    monitor,    \* TriggerMonitor: _stop_event, _threads, _watchdog_observer (and the
                \* watches scheduled on it), _flask_server
    poll,       \* the thread running _poll_triggers: its position in the loop
    http,       \* a request in the threaded listener: its position in view_func
    previous,   \* the threads started by an earlier start() that are still alive
    handlers,   \* the request threads of the threaded listener, when view_func is
                \* followed statement by statement
    watchdog_event_queue,  \* TriggerMonitor._watchdog_event_queue, oldest entry first
    fileloop,   \* the thread running _process_file_events: its position in the loop
    main        \* the thread that calls start(), stop() and run_forever()

vars == <<pipeline, lastAdd, run, now, trigger, lastCheck, poller, evtrigger, lastCall,
          pipeline_registry, trigger_registry, monitor, poll, http, handlers, previous,
          watchdog_event_queue, fileloop, main>>

pipelineVars == <<pipeline, lastAdd, run>>
cronVars == <<now, trigger, lastCheck, poller>>
eventVars == <<evtrigger, lastCall>>
fileVars == <<watchdog_event_queue, fileloop, main>>
monitorVars == <<pipeline_registry, trigger_registry, monitor, poll, http, handlers, previous, fileVars>>

\* ---------------------------------------------------------------------
\* core.py: Pipeline
\* ---------------------------------------------------------------------

\* Pipeline.__init__
Pipeline_init(name) ==
    [name |-> name,
     steps |-> <<>>,
     dependencies |-> <<>>,
     reverse_dependencies |-> <<>>]

\* dict.setdefault(key, set()) on a dict of sets
setdefault(d, key) ==
    IF key \in DOMAIN d THEN d ELSE (key :> {}) @@ d

\* d[key] = value
dict_set(d, key, value) ==
    [k \in DOMAIN d \cup {key} |-> IF k = key THEN value ELSE d[k]]

\* The validation loop of add_step: for dep_name in depends_on, raise at
\* the first name that is not in _steps, else record the reverse edge.
RECURSIVE add_step_validate(_, _, _, _)
add_step_validate(p, step, depends_on, i) ==
    IF i > Len(depends_on)
    THEN [pipeline |-> p, raised |-> "None"]
    ELSE IF depends_on[i] \notin DOMAIN p.steps
         THEN [pipeline |-> p, raised |-> "ValueError: dependency not found"]
         ELSE add_step_validate(
                [p EXCEPT !.reverse_dependencies =
                    dict_set(setdefault(@, depends_on[i]), depends_on[i],
                             setdefault(@, depends_on[i])[depends_on[i]] \cup {step.name})],
                step, depends_on, i + 1)

\* Mutant of add_step: the step is registered before the duplicate check.
add_step_dup_late(p, step, depends_on) ==
    LET p1 == [p EXCEPT
                 !.steps = dict_set(@, step.name, step),
                 !.dependencies = dict_set(@, step.name, Range(depends_on)),
                 !.reverse_dependencies = setdefault(@, step.name)]
    IN IF step.name \in DOMAIN p.steps
       THEN [pipeline |-> p1, raised |-> "ValueError: already exists"]
       ELSE add_step_validate(p1, step, depends_on, 1)

\* Pipeline.add_step(step, depends_on): the resulting pipeline and the
\* exception raised, if any. depends_on None and [] are both <<>>.
add_step(p, step, depends_on) ==
    IF step.name \in DOMAIN p.steps
    THEN [pipeline |-> p, raised |-> "ValueError: already exists"]
    ELSE LET p1 == [p EXCEPT
                      !.steps = dict_set(@, step.name, step),
                      !.dependencies = dict_set(@, step.name, Range(depends_on)),
                      !.reverse_dependencies = setdefault(@, step.name)]
         IN add_step_validate(p1, step, depends_on, 1)

\* Pipeline.get_step(name)
get_step(p, name) ==
    IF name \notin DOMAIN p.steps
    THEN [step |-> [name |-> name, impl |-> "core"], raised |-> "ValueError: step not found"]
    ELSE [step |-> p.steps[name], raised |-> "None"]

\* ---------------------------------------------------------------------
\* decorators.py: @step, and the objects handed to add_step
\* ---------------------------------------------------------------------

\* No Step object
NoStep == [name |-> "None", impl |-> "None"]

\* A Step instance built by Step(name, func), as an argument of add_step
StepObject(s) == [cls |-> "Step", name |-> s.name, impl |-> s.impl]

\* A plain function def func_name(context): its attributes
PlainFunction(func_name) ==
    [cls |-> "function", __name__ |-> func_name, _pipeline_step_obj |-> NoStep]

\* The int 123
IntObject == [cls |-> "int"]

\* step(func, name=name): the wrapper that the decorator returns. The Step
\* is named name, or func.__name__ when name is None; functools.wraps gives
\* the wrapper the function's __name__ and __dict__, and the Step (of
\* models.py) is attached as _pipeline_step_obj. It gets no attribute `name`.
step_decorator(func, name) ==
    LET step_name == IF name # "None" THEN name ELSE func.__name__
    IN [cls |-> "function", __name__ |-> func.__name__,
        _pipeline_step_obj |-> [name |-> step_name, impl |-> "models"]]

\* get_step_from_decorated_func: getattr(func, "_pipeline_step_obj", None)
get_step_from_decorated_func(obj) ==
    IF obj.cls = "function" THEN obj._pipeline_step_obj ELSE NoStep

\* hasattr(obj, "name"): a Step has the field, a function and an int do not
has_name(obj) == obj.cls = "Step"

\* Pipeline.add_step(obj, depends_on) for any object: the first statement
\* reads obj.name, which raises AttributeError unless obj is a Step
add_step_object(p, obj, depends_on) ==
    IF has_name(obj)
    THEN add_step(p, [name |-> obj.name, impl |-> obj.impl], depends_on)
    ELSE [pipeline |-> p, raised |-> "AttributeError"]

\* ---------------------------------------------------------------------
\* errors.py
\* ---------------------------------------------------------------------

NoError == [type |-> "None"]

\* An ordinary exception raised by the function of step `name`.
PlainException(name) == [type |-> "Exception", raised_in |-> name]

\* StepExecutionError.__init__(step_name, original_exception)
StepExecutionError(step_name, original_exception) ==
    [type |-> "StepExecutionError",
     step_name |-> step_name,
     original_exception |-> original_exception]

CyclicDependencyError == [type |-> "CyclicDependencyError"]

\* What a step function does on this call: fn.kind is one of Outcomes,
\* fn.see_name the step name carried by a StepExecutionError the function
\* raises itself.
StepFuncs ==
    [kind : {"return", "raise"}, see_name : {"a"}] \cup
    [kind : {"raise_see"}, see_name : SeeNames]

\* The value the function of step `name` returns: one distinct value per step.
func_returns(name, fn) == <<"result of", name>>

func_raises(name, fn) ==
    IF fn.kind = "raise_see"
    THEN StepExecutionError(fn.see_name, [type |-> "Exception", raised_in |-> "nested"])
    ELSE PlainException(name)

\* ---------------------------------------------------------------------
\* models.py / core.py: PipelineRunContext and Step.execute
\* ---------------------------------------------------------------------

\* Mutant of results_set: a new key is placed before the others.
results_set_front(results, name, value) ==
    IF \E i \in 1..Len(results) : results[i][1] = name
    THEN [i \in 1..Len(results) |->
            IF results[i][1] = name THEN <<name, value>> ELSE results[i]]
    ELSE <<<<name, value>>>> \o results

\* context.results[name] = result on a dict kept in insertion order
results_set(results, name, value) ==
    IF \E i \in 1..Len(results) : results[i][1] = name
    THEN [i \in 1..Len(results) |->
            IF results[i][1] = name THEN <<name, value>> ELSE results[i]]
    ELSE Append(results, <<name, value>>)

result_keys(results) == {results[i][1] : i \in 1..Len(results)}

\* core.Step.execute: stores the result, re-raises the original exception
core_Step_execute(step, context, fn) ==
    IF fn.kind = "return"
    THEN [context |-> [context EXCEPT !.results = results_set(@, step.name, func_returns(step.name, fn))],
          raised |-> NoError]
    ELSE [context |-> context, raised |-> func_raises(step.name, fn)]

\* models.Step.execute: stores the result, wraps any exception
models_Step_execute(step, context, fn) ==
    IF fn.kind = "return"
    THEN [context |-> [context EXCEPT !.results = results_set(@, step.name, func_returns(step.name, fn))],
          raised |-> NoError]
    ELSE [context |-> context,
          raised |-> StepExecutionError(step.name, func_raises(step.name, fn))]

Step_execute(step, context, fn) ==
    IF step.impl = "core"
    THEN core_Step_execute(step, context, fn)
    ELSE models_Step_execute(step, context, fn)

\* ---------------------------------------------------------------------
\* engine.py: PipelineExecutionEngine
\* ---------------------------------------------------------------------

\* Mutant of _build_dependency_graph: edges point from dependent to dependency.
_build_dependency_graph_reversed(p) ==
    [nodes |-> DOMAIN p.steps,
     edges |-> {e \in (DOMAIN p.dependencies) \X (DOMAIN p.steps) :
                    e[2] \in p.dependencies[e[1]]}]

\* _build_dependency_graph: one node per step, one edge dependency -> dependent;
\* a dependency that is not a step is ignored.
_build_dependency_graph(p) ==
    [nodes |-> DOMAIN p.steps,
     edges |-> {e \in (DOMAIN p.steps) \X (DOMAIN p.dependencies) :
                    e[1] \in p.dependencies[e[2]]}]

\* Mutant of in_degree: a self-loop is not counted.
in_degree_no_self_loop(G, done, n) ==
    Cardinality({e \in G.edges : e[2] = n /\ e[1] \notin done /\ e[1] # n})

\* G.in_degree(n), counting only edges from nodes not yet yielded
in_degree(G, done, n) == Cardinality({e \in G.edges : e[2] = n /\ e[1] \notin done})

\* networkx.topological_sort: Kahn's algorithm. Every order it can yield,
\* whichever zero-in-degree node is taken next; a sequence shorter than the
\* node set is where networkx raises NetworkXUnfeasible.
RECURSIVE topological_sort_from(_, _, _)
topological_sort_from(G, done, prefix) ==
    LET zero_indegree == {n \in G.nodes \ done : in_degree(G, done, n) = 0}
    IN IF zero_indegree = {}
       THEN {prefix}
       ELSE UNION {topological_sort_from(G, done \cup {n}, Append(prefix, n)) :
                      n \in zero_indegree}

topological_sort(G) == topological_sort_from(G, {}, <<>>)

\* networkx.is_directed_acyclic_graph: the topological sort is feasible
is_directed_acyclic_graph(G) ==
    \A s \in topological_sort(G) : Len(s) = Cardinality(G.nodes)

\* _get_execution_order: the orders the call may return, or the error raised
_get_execution_order(p) ==
    LET graph == _build_dependency_graph(p)
    IN IF ~is_directed_acyclic_graph(graph)
       THEN [orders |-> {}, raised |-> CyclicDependencyError]
       ELSE [orders |-> topological_sort(graph), raised |-> NoError]

\* No run has been made yet.
NoRun ==
    [pc |-> "idle",
     context |-> [run_id |-> "None", pipeline_name |-> "None",
                  results |-> <<>>, parameters |-> "{}"],
     args |-> [run_id |-> "None", parameters |-> "None"],
     execution_order |-> <<>>,
     pos |-> 1,
     called |-> <<>>,
     returned |-> <<>>,
     failed_step |-> "None",
     step_raised |-> NoError,
     raised |-> NoError]

\* Mutant of run_begin: the caller's run id and parameters are not used.
run_begin_ignores_args(p, run_id, parameters, execution_order, order_raised) ==
    [NoRun EXCEPT
       !.pc = IF order_raised = NoError THEN "running" ELSE "raised",
       !.context = [run_id |-> "run_uuid",
                    pipeline_name |-> p.name,
                    results |-> <<>>,
                    parameters |-> "{}"],
       !.args = [run_id |-> run_id, parameters |-> parameters],
       !.execution_order = execution_order,
       !.raised = order_raised]

\* run(), up to the start of the step loop: run id, fresh context, order.
run_begin(p, run_id, parameters, execution_order, order_raised) ==
    [NoRun EXCEPT
       !.pc = IF order_raised = NoError THEN "running" ELSE "raised",
       !.context = [run_id |-> IF run_id = "None" THEN "run_uuid" ELSE run_id,
                    pipeline_name |-> p.name,
                    results |-> <<>>,
                    parameters |-> IF parameters = "None" THEN "{}" ELSE parameters],
       !.args = [run_id |-> run_id, parameters |-> parameters],
       !.execution_order = execution_order,
       !.raised = order_raised]

\* The error run() raises when step.execute raised e: wrapped unless it
\* already is a StepExecutionError.
run_wrap(step_name, e) ==
    IF e.type # "StepExecutionError"
    THEN StepExecutionError(step_name, e)
    ELSE e

\* Mutant of run_step: a failed step is logged and the loop goes on.
run_step_continue(r, p, fn) ==
    LET step_name == r.execution_order[r.pos]
        step == get_step(p, step_name).step
        ex == Step_execute(step, r.context, fn)
    IN [r EXCEPT !.context = ex.context,
                 !.called = Append(@, step_name),
                 !.returned = IF fn.kind = "return"
                              THEN Append(@, <<step_name, func_returns(step_name, fn)>>) ELSE @,
                 !.failed_step = IF ex.raised = NoError THEN @ ELSE step_name,
                 !.step_raised = IF ex.raised = NoError THEN @ ELSE func_raises(step_name, fn),
                 !.pos = @ + 1]

\* One iteration of the step loop of run(): get_step, execute, fail fast.
run_step(r, p, fn) ==
    LET step_name == r.execution_order[r.pos]
        step == get_step(p, step_name).step
        ex == Step_execute(step, r.context, fn)
    IN IF ex.raised = NoError
       THEN [r EXCEPT !.context = ex.context,
                      !.called = Append(@, step_name),
                      !.returned = Append(@, <<step_name, func_returns(step_name, fn)>>),
                      !.pos = @ + 1]
       ELSE [r EXCEPT !.context = ex.context,
                      !.called = Append(@, step_name),
                      !.failed_step = step_name,
                      !.step_raised = func_raises(step_name, fn),
                      !.pc = "raised",
                      !.raised = run_wrap(step_name, ex.raised)]

\* ---------------------------------------------------------------------
\* Actions: building a pipeline and running it
\* ---------------------------------------------------------------------

NoAdd == [name |-> "None", unknown_deps |-> {}, raised |-> "None"]

\* p.add_step(Step(name, func), depends_on), while the pipeline is being built.
\* The program takes its Step class from one module: every step of a
\* pipeline is of the same class.
AddStep(name, impl, depends_on) ==
    /\ run.pc = "idle"
    /\ \A s \in DOMAIN pipeline.steps : pipeline.steps[s].impl = impl
    /\ LET r == add_step(pipeline, [name |-> name, impl |-> impl], depends_on)
       IN /\ pipeline' = r.pipeline
          /\ lastAdd' = [name |-> name,
                         unknown_deps |-> Range(depends_on) \ DOMAIN pipeline.steps,
                         raised |-> r.raised]
    /\ UNCHANGED <<run, cronVars, eventVars, monitorVars>>

\* The objects the program hands to add_step: Step instances, functions
\* decorated with @step and with @step(name=...), a function that is not
\* decorated, and an int
AddObjects ==
    {StepObject([name |-> n, impl |-> "models"]) : n \in {"a", "b"}} \cup
    {step_decorator(PlainFunction("a"), "None"), step_decorator(PlainFunction("b"), "None"),
     step_decorator(PlainFunction("b"), "c"), PlainFunction("c"), IntObject}

\* p.add_step(obj, depends_on), while the pipeline is being built; the
\* call is recorded with the object it was given
AddObject(obj, depends_on) ==
    /\ run.pc = "idle"
    /\ LET r == add_step_object(pipeline, obj, depends_on)
       IN /\ pipeline' = r.pipeline
          /\ lastAdd' = [name |-> IF has_name(obj) THEN obj.name ELSE "None",
                         unknown_deps |-> Range(depends_on) \ DOMAIN pipeline.steps,
                         raised |-> r.raised,
                         obj |-> obj]
    /\ UNCHANGED <<run, cronVars, eventVars, monitorVars>>

\* PipelineExecutionEngine(pipeline).run(run_id, parameters), up to the step loop
RunStart(run_id, parameters) ==
    /\ run.pc # "running"
    /\ LET eo == _get_execution_order(pipeline)
       IN IF eo.raised # NoError
          THEN run' = run_begin(pipeline, run_id, parameters, <<>>, eo.raised)
          ELSE \E order \in eo.orders :
                  run' = run_begin(pipeline, run_id, parameters, order, NoError)
    /\ UNCHANGED <<pipeline, lastAdd, cronVars, eventVars, monitorVars>>

\* One iteration of the step loop
RunStep(fn) ==
    /\ run.pc = "running"
    /\ run.pos <= Len(run.execution_order)
    /\ run' = run_step(run, pipeline, fn)
    /\ UNCHANGED <<pipeline, lastAdd, cronVars, eventVars, monitorVars>>

\* The loop is over: run() returns the context
RunReturn ==
    /\ run.pc = "running"
    /\ run.pos > Len(run.execution_order)
    /\ run' = [run EXCEPT !.pc = "returned"]
    /\ UNCHANGED <<pipeline, lastAdd, cronVars, eventVars, monitorVars>>

\* ---------------------------------------------------------------------
\* triggers/base.py, triggers/cron.py: CronTrigger
\* ---------------------------------------------------------------------

\* Schedule expressions given to the constructor.
CronExprs == {"* * * * *", "*/2 * * * *", "invalid cron string"}

\* Seconds the clock is advanced by between calls.
Delays == {1, 30, 59, 60, 120}

\* croniter.is_valid
croniter_is_valid(cron_expression) == cron_expression \in {"* * * * *", "*/2 * * * *"}

\* Seconds between two instants of the schedule: every minute, every second minute.
croniter_period(cron_expression) == IF cron_expression = "*/2 * * * *" THEN 120 ELSE 60

\* croniter(expr, t).get_prev(datetime): the last scheduled instant strictly before t
croniter_get_prev(cron_expression, t) ==
    ((t - 1) \div croniter_period(cron_expression)) * croniter_period(cron_expression)

\* croniter(expr, t).get_next(datetime): the first scheduled instant strictly after t
croniter_get_next(cron_expression, t) ==
    ((t \div croniter_period(cron_expression)) + 1) * croniter_period(cron_expression)

\* datetime.isoformat()
isoformat(t) == <<"isoformat", t>>

NoTrigger ==
    [constructed |-> FALSE, trigger_id |-> "None", pipeline_name |-> "None",
     cron_expression |-> "None", created_at |-> 0, last_scheduled_fire_time |-> 0]

\* CronTrigger.__init__ (with BaseTrigger.__init__) called at time t
CronTrigger_init(trigger_id, pipeline_name, cron_expression, t) ==
    IF trigger_id = ""
    THEN [trigger |-> NoTrigger, raised |-> "ValueError: trigger_id cannot be empty"]
    ELSE IF pipeline_name = ""
    THEN [trigger |-> NoTrigger, raised |-> "ValueError: pipeline_name cannot be empty"]
    ELSE IF ~croniter_is_valid(cron_expression)
    THEN [trigger |-> NoTrigger, raised |-> "ValueError: Invalid cron expression"]
    ELSE [trigger |-> [constructed |-> TRUE,
                       trigger_id |-> trigger_id,
                       pipeline_name |-> pipeline_name,
                       cron_expression |-> cron_expression,
                       created_at |-> t,
                       last_scheduled_fire_time |-> croniter_get_prev(cron_expression, t)],
          raised |-> "None"]

\* CronTrigger.get_run_parameters(fire_time)
CronTrigger_get_run_parameters(trg, fire_time) ==
    [trigger_id |-> trg.trigger_id, scheduled_fire_time_utc |-> isoformat(fire_time)]

NoRunInfo ==
    [pipeline_name |-> "None", trigger_id |-> "None",
     parameters |-> [trigger_id |-> "None", scheduled_fire_time_utc |-> isoformat(0)]]

\* Mutant of CronTrigger_check: the RunRequest carries the previous fire time.
CronTrigger_check_stale_parameters(trg, t) ==
    LET next_fire_time == croniter_get_next(trg.cron_expression, trg.last_scheduled_fire_time)
    IN IF t >= next_fire_time
       THEN [trigger |-> [trg EXCEPT !.last_scheduled_fire_time = next_fire_time],
             fired |-> TRUE,
             run_info |-> [pipeline_name |-> trg.pipeline_name,
                           parameters |-> CronTrigger_get_run_parameters(
                                              trg, trg.last_scheduled_fire_time),
                           trigger_id |-> trg.trigger_id]]
       ELSE [trigger |-> trg, fired |-> FALSE, run_info |-> NoRunInfo]

\* Mutant of CronTrigger_check: a lapsed trigger catches up to the current time.
CronTrigger_check_catch_up(trg, t) ==
    LET next_fire_time == croniter_get_next(trg.cron_expression, trg.last_scheduled_fire_time)
        latest == croniter_get_prev(trg.cron_expression, t + 1)
    IN IF t >= next_fire_time
       THEN [trigger |-> [trg EXCEPT !.last_scheduled_fire_time = latest],
             fired |-> TRUE,
             run_info |-> [pipeline_name |-> trg.pipeline_name,
                           parameters |-> CronTrigger_get_run_parameters(trg, latest),
                           trigger_id |-> trg.trigger_id]]
       ELSE [trigger |-> trg, fired |-> FALSE, run_info |-> NoRunInfo]

\* CronTrigger.check() called at time t: the trigger afterwards and the
\* TriggerRunInfo returned (fired = FALSE stands for None).
CronTrigger_check(trg, t) ==
    LET next_fire_time == croniter_get_next(trg.cron_expression, trg.last_scheduled_fire_time)
    IN IF t >= next_fire_time
       THEN [trigger |-> [trg EXCEPT !.last_scheduled_fire_time = next_fire_time],
             fired |-> TRUE,
             run_info |-> [pipeline_name |-> trg.pipeline_name,
                           parameters |-> CronTrigger_get_run_parameters(trg, next_fire_time),
                           trigger_id |-> trg.trigger_id]]
       ELSE [trigger |-> trg, fired |-> FALSE, run_info |-> NoRunInfo]

NoCheck == [made |-> FALSE, before |-> 0, fired |-> FALSE, run_info |-> NoRunInfo]

\* The record of a check() call on a trigger whose last fire time was `before`
check_record(before, c) ==
    [made |-> TRUE, before |-> before, fired |-> c.fired, run_info |-> c.run_info]

\* CronTrigger(trigger_id, pipeline_name, cron_expression) at the current time
CronConstruct(cron_expression) ==
    /\ ~trigger.constructed
    /\ now <= MaxCreate
    /\ trigger' = CronTrigger_init("cron1", "p", cron_expression, now).trigger
    /\ UNCHANGED <<pipelineVars, eventVars, monitorVars, now, lastCheck, poller>>

\* Time passes
Advance(d) ==
    /\ now + d <= MaxTime
    /\ ~poller.started
    /\ now' = now + d
    /\ lastCheck' = NoCheck
    /\ UNCHANGED <<pipelineVars, eventVars, monitorVars, trigger, poller>>

\* trigger.check() at the current time
CronCheck ==
    /\ trigger.constructed
    /\ LET c == CronTrigger_check(trigger, now)
       IN /\ trigger' = c.trigger
          /\ lastCheck' = check_record(trigger.last_scheduled_fire_time, c)
    /\ UNCHANGED <<pipelineVars, eventVars, monitorVars, now, poller>>

\* ---------------------------------------------------------------------
\* triggers/file.py: FileWatcherTrigger
\* ---------------------------------------------------------------------

\* A string the code takes apart is a sequence of one-character strings.
\* Names of directories and files on the watched file system.
Name_in == <<"i", "n">>
Name_in2 == <<"i", "n", "2">>
Name_sub == <<"s", "u", "b">>
Name_csv == <<"a", ".", "c", "s", "v">>
Name_txt == <<"a", ".", "t", "x", "t">>

\* The directories that exist, as lists of path components; the root is <<>>.
Directories == {<<>>, <<Name_in>>, <<Name_in, Name_sub>>, <<Name_in2>>}

FileNames == {Name_csv, Name_txt}

\* "/" + "/".join(parts)
RECURSIVE path_join(_)
path_join(parts) ==
    IF parts = <<>> THEN <<>> ELSE <<"/">> \o Head(parts) \o path_join(Tail(parts))

\* The path of file `name` in directory `dir`, as delivered by the watcher
path_str(dir, name) == path_join(Append(dir, name))

\* s.split("/"), cur being the component read so far
RECURSIVE str_split(_, _)
str_split(s, cur) ==
    IF s = <<>> THEN <<cur>>
    ELSE IF Head(s) = "/" THEN <<cur>> \o str_split(Tail(s), <<>>)
    ELSE str_split(Tail(s), Append(cur, Head(s)))

\* os.path.normpath on the components of an absolute path: empty and "."
\* components are dropped, ".." drops the component before it
RECURSIVE normpath_fold(_, _)
normpath_fold(comps, acc) ==
    IF comps = <<>> THEN acc
    ELSE IF Head(comps) = <<>> \/ Head(comps) = <<".">>
    THEN normpath_fold(Tail(comps), acc)
    ELSE IF Head(comps) = <<".", ".">>
    THEN normpath_fold(Tail(comps),
                       IF acc = <<>> THEN acc ELSE SubSeq(acc, 1, Len(acc) - 1))
    ELSE normpath_fold(Tail(comps), Append(acc, Head(comps)))

\* os.getcwd()
Cwd == <<"/">>

\* os.path.abspath
os_path_abspath(path) ==
    LET full == IF path # <<>> /\ Head(path) = "/" THEN path ELSE Cwd \o <<"/">> \o path
        parts == normpath_fold(str_split(full, <<>>), <<>>)
    IN IF parts = <<>> THEN <<"/">> ELSE path_join(parts)

\* os.path.isdir
os_path_isdir(path) ==
    \E d \in Directories :
        os_path_abspath(path) = (IF d = <<>> THEN <<"/">> ELSE path_join(d))

\* s.rfind("/") + 1: the length of s up to and including its last slash
rfind_slash(s) ==
    IF \E i \in 1..Len(s) : s[i] = "/"
    THEN CHOOSE i \in 1..Len(s) : s[i] = "/" /\ \A j \in (i + 1)..Len(s) : s[j] # "/"
    ELSE 0

\* s.rstrip("/")
RECURSIVE rstrip_slash(_)
rstrip_slash(s) ==
    IF s # <<>> /\ s[Len(s)] = "/" THEN rstrip_slash(SubSeq(s, 1, Len(s) - 1)) ELSE s

\* os.path.dirname (posixpath)
os_path_dirname(p) ==
    LET head == SubSeq(p, 1, rfind_slash(p))
    IN IF head # <<>> /\ \E j \in 1..Len(head) : head[j] # "/"
       THEN rstrip_slash(head)
       ELSE head

\* os.path.basename (posixpath)
os_path_basename(p) == SubSeq(p, rfind_slash(p) + 1, Len(p))

\* str.startswith
startswith(s, prefix) ==
    Len(prefix) <= Len(s) /\ SubSeq(s, 1, Len(prefix)) = prefix

\* fnmatch.fnmatch for patterns made of literal characters, "*" and "?"
RECURSIVE fnmatch(_, _)
fnmatch(filename, pattern) ==
    IF pattern = <<>> THEN filename = <<>>
    ELSE IF Head(pattern) = "*"
    THEN \/ fnmatch(filename, Tail(pattern))
         \/ filename # <<>> /\ fnmatch(Tail(filename), pattern)
    ELSE /\ filename # <<>>
         /\ Head(pattern) = "?" \/ Head(pattern) = Head(filename)
         /\ fnmatch(Tail(filename), Tail(pattern))

\* Watchdog event classes and their event_type
EventClasses == {"FileCreatedEvent", "FileModifiedEvent", "FileDeletedEvent", "DirCreatedEvent"}

event_type(cls) ==
    IF cls \in {"FileCreatedEvent", "DirCreatedEvent"} THEN "created"
    ELSE IF cls = "FileModifiedEvent" THEN "modified"
    ELSE "deleted"

\* No event: None
NoEvent == [cls |-> "None", src_path |-> <<>>]

\* The events the watcher can deliver
Events ==
    {[cls |-> cls, src_path |-> path_str(dir, name)] :
        cls \in EventClasses, dir \in Directories \ {<<>>}, name \in FileNames}

\* Arguments of the FileWatcherTrigger constructor
PathArgs == {<<"/", "i", "n">>, <<"/", "i", "n", "/">>, <<"/", "n", "o">>}

Pattern_csv == <<"*", ".", "c", "s", "v">>
Pattern_txt == <<"*", ".", "t", "x", "t">>

\* patterns=None and patterns=[] are both <<>>: the code only tests `if self.patterns`
PatternArgs == {<<>>, <<Pattern_csv>>, <<Pattern_csv, Pattern_txt>>}

NoEventTrigger == [kind |-> "None", trigger_id |-> "None", pipeline_name |-> "None"]

\* FileWatcherTrigger.__init__ (with BaseTrigger.__init__)
FileWatcherTrigger_init(trigger_id, pipeline_name, path, patterns, recursive, watch_creation, watch_modification) ==
    IF trigger_id = ""
    THEN [trigger |-> NoEventTrigger, raised |-> "ValueError: trigger_id cannot be empty"]
    ELSE IF pipeline_name = ""
    THEN [trigger |-> NoEventTrigger, raised |-> "ValueError: pipeline_name cannot be empty"]
    ELSE IF ~os_path_isdir(path)
    THEN [trigger |-> NoEventTrigger, raised |-> "ValueError: Path must be a valid directory"]
    ELSE IF ~watch_creation /\ ~watch_modification
    THEN [trigger |-> NoEventTrigger, raised |-> "ValueError: must watch for creation or modification"]
    ELSE [trigger |-> [kind |-> "file",
                       trigger_id |-> trigger_id,
                       pipeline_name |-> pipeline_name,
                       path |-> os_path_abspath(path),
                       patterns |-> patterns,
                       recursive |-> recursive,
                       watch_creation |-> watch_creation,
                       watch_modification |-> watch_modification,
                       _triggered_event |-> NoEvent],
          raised |-> "None"]

\* Mutant of matches_event: the recursive flag is not consulted.
matches_event_any_depth(trg, event) ==
    LET event_path == os_path_abspath(event.src_path)
    IN /\ ~(event.cls = "FileCreatedEvent" /\ ~trg.watch_creation)
       /\ ~(event.cls = "FileModifiedEvent" /\ ~trg.watch_modification)
       /\ event.cls \in {"FileCreatedEvent", "FileModifiedEvent"}
       /\ startswith(event_path, trg.path)
       /\ trg.patterns # <<>> =>
              \E i \in 1..Len(trg.patterns) :
                  fnmatch(os_path_basename(event_path), trg.patterns[i])

\* FileWatcherTrigger.matches_event
matches_event(trg, event) ==
    LET event_path == os_path_abspath(event.src_path)
    IN /\ ~(event.cls = "FileCreatedEvent" /\ ~trg.watch_creation)
       /\ ~(event.cls = "FileModifiedEvent" /\ ~trg.watch_modification)
       /\ event.cls \in {"FileCreatedEvent", "FileModifiedEvent"}
       /\ startswith(event_path, trg.path)
       /\ ~(~trg.recursive /\ os_path_dirname(event_path) # trg.path)
       /\ trg.patterns # <<>> =>
              \E i \in 1..Len(trg.patterns) :
                  fnmatch(os_path_basename(event_path), trg.patterns[i])

\* FileWatcherTrigger.set_triggered_event
set_triggered_event(trg, event) == [trg EXCEPT !._triggered_event = event]

\* BaseTrigger.get_run_parameters
BaseTrigger_get_run_parameters(trg) == [trigger_id |-> trg.trigger_id]

\* Mutant of FileWatcherTrigger_get_run_parameters: the stored event is kept.
FileWatcherTrigger_get_run_parameters_keeps_event(trg) ==
    IF trg._triggered_event # NoEvent
    THEN [params |-> [trigger_id |-> trg.trigger_id,
                      event_type |-> event_type(trg._triggered_event.cls),
                      src_path |-> trg._triggered_event.src_path],
          trigger |-> trg]
    ELSE [params |-> BaseTrigger_get_run_parameters(trg), trigger |-> trg]

\* FileWatcherTrigger.get_run_parameters: the parameters returned and the
\* trigger afterwards
FileWatcherTrigger_get_run_parameters(trg) ==
    IF trg._triggered_event # NoEvent
    THEN [params |-> [trigger_id |-> trg.trigger_id,
                      event_type |-> event_type(trg._triggered_event.cls),
                      src_path |-> trg._triggered_event.src_path],
          trigger |-> [trg EXCEPT !._triggered_event = NoEvent]]
    ELSE [params |-> BaseTrigger_get_run_parameters(trg), trigger |-> trg]

\* ---------------------------------------------------------------------
\* triggers/webhook.py: WebhookTrigger
\* ---------------------------------------------------------------------

\* Arguments of the WebhookTrigger constructor; methods=None is <<>>
EndpointArgs == {<<"/", "r", "u", "n">>, <<"r", "u", "n">>}

MethodArgs == {<<>>, <<"POST", "GET">>}

\* json.loads of a request body: the parsed value, "None" when it does not parse
json_loads(data) == IF data = "{\"run\": 1}" THEN "dict(run=1)" ELSE "None"

\* flask request.get_json(silent=True)
get_json(request) ==
    IF request.headers["Content-Type"] = "application/json"
    THEN json_loads(request.data)
    ELSE "None"

\* The requests the listener can receive on the endpoint
Requests ==
    {[method |-> method, path |-> <<"/", "r", "u", "n">>, args |-> args,
      headers |-> [h \in {"Content-Type"} |-> content_type], data |-> data] :
        method \in {"POST", "GET"},
        args \in {"{}", "{dry: 1}"},
        content_type \in {"application/json", "text/plain"},
        data \in {"", "{\"run\": 1}"}}

\* No stored request data: None
NoRequestData ==
    [method |-> "None", endpoint |-> <<>>, args |-> "None",
     headers |-> [h \in {"Content-Type"} |-> "None"], data |-> "None", json_data |-> "None"]

\* Mutant of WebhookTrigger_init: the endpoint is not looked at.
WebhookTrigger_init_any_endpoint(trigger_id, pipeline_name, endpoint, methods) ==
    IF trigger_id = ""
    THEN [trigger |-> NoEventTrigger, raised |-> "ValueError: trigger_id cannot be empty"]
    ELSE IF pipeline_name = ""
    THEN [trigger |-> NoEventTrigger, raised |-> "ValueError: pipeline_name cannot be empty"]
    ELSE [trigger |-> [kind |-> "webhook",
                       trigger_id |-> trigger_id,
                       pipeline_name |-> pipeline_name,
                       endpoint |-> endpoint,
                       methods |-> IF methods = <<>> THEN <<"POST">> ELSE methods,
                       _triggered_request_data |-> NoRequestData],
          raised |-> "None"]

\* WebhookTrigger.__init__ (with BaseTrigger.__init__)
WebhookTrigger_init(trigger_id, pipeline_name, endpoint, methods) ==
    IF trigger_id = ""
    THEN [trigger |-> NoEventTrigger, raised |-> "ValueError: trigger_id cannot be empty"]
    ELSE IF pipeline_name = ""
    THEN [trigger |-> NoEventTrigger, raised |-> "ValueError: pipeline_name cannot be empty"]
    ELSE IF ~startswith(endpoint, <<"/">>)
    THEN [trigger |-> NoEventTrigger, raised |-> "ValueError: Webhook endpoint must start with '/'"]
    ELSE [trigger |-> [kind |-> "webhook",
                       trigger_id |-> trigger_id,
                       pipeline_name |-> pipeline_name,
                       endpoint |-> endpoint,
                       methods |-> IF methods = <<>> THEN <<"POST">> ELSE methods,
                       _triggered_request_data |-> NoRequestData],
          raised |-> "None"]

\* WebhookTrigger.set_triggered_request
set_triggered_request(trg, flask_request) ==
    [trg EXCEPT !._triggered_request_data =
        [method |-> flask_request.method,
         endpoint |-> flask_request.path,
         args |-> flask_request.args,
         headers |-> flask_request.headers,
         data |-> flask_request.data,
         json_data |-> get_json(flask_request)]]

\* params.update(self._triggered_request_data)
params_update(params, d) ==
    [k \in DOMAIN params \cup DOMAIN d |-> IF k \in DOMAIN d THEN d[k] ELSE params[k]]

\* WebhookTrigger.get_run_parameters: the parameters returned and the
\* trigger afterwards
WebhookTrigger_get_run_parameters(trg) ==
    IF trg._triggered_request_data # NoRequestData
    THEN [params |-> params_update(BaseTrigger_get_run_parameters(trg),
                                   trg._triggered_request_data),
          trigger |-> [trg EXCEPT !._triggered_request_data = NoRequestData]]
    ELSE [params |-> BaseTrigger_get_run_parameters(trg), trigger |-> trg]

\* ---------------------------------------------------------------------
\* Calls on an event-capable trigger
\* ---------------------------------------------------------------------

NoCall ==
    [op |-> "None", raised |-> "None", event |-> NoEvent, result |-> FALSE,
     params |-> [trigger_id |-> "None"]]

\* FileWatcherTrigger("watch_csv_files", "branching_pipeline", path, ...)
FileConstruct(path, patterns, recursive, watch_creation, watch_modification) ==
    /\ evtrigger = NoEventTrigger
    /\ LET c == FileWatcherTrigger_init("watch_csv_files", "branching_pipeline", path,
                                        patterns, recursive, watch_creation,
                                        watch_modification)
       IN /\ evtrigger' = c.trigger
          /\ lastCall' = [NoCall EXCEPT !.op = "__init__", !.raised = c.raised]
    /\ UNCHANGED <<pipelineVars, cronVars, monitorVars>>

\* WebhookTrigger("webhook_fail_test", "failing_pipeline", endpoint, methods)
WebhookConstruct(endpoint, methods) ==
    /\ evtrigger = NoEventTrigger
    /\ LET c == WebhookTrigger_init("webhook_fail_test", "failing_pipeline", endpoint,
                                    methods)
       IN /\ evtrigger' = c.trigger
          /\ lastCall' = [NoCall EXCEPT !.op = "__init__", !.raised = c.raised]
    /\ UNCHANGED <<pipelineVars, cronVars, monitorVars>>

\* trigger.matches_event(event)
MatchesEvent(event) ==
    /\ evtrigger.kind = "file"
    /\ lastCall' = [NoCall EXCEPT !.op = "matches_event", !.event = event,
                                  !.result = matches_event(evtrigger, event)]
    /\ UNCHANGED <<pipelineVars, cronVars, monitorVars, evtrigger>>

\* trigger.set_triggered_event(event)
SetTriggeredEvent(event) ==
    /\ evtrigger.kind = "file"
    /\ evtrigger' = set_triggered_event(evtrigger, event)
    /\ lastCall' = [NoCall EXCEPT !.op = "set_triggered_event"]
    /\ UNCHANGED <<pipelineVars, cronVars, monitorVars>>

\* trigger.set_triggered_request(request)
SetTriggeredRequest(flask_request) ==
    /\ evtrigger.kind = "webhook"
    /\ evtrigger' = set_triggered_request(evtrigger, flask_request)
    /\ lastCall' = [NoCall EXCEPT !.op = "set_triggered_request"]
    /\ UNCHANGED <<pipelineVars, cronVars, monitorVars>>

\* trigger.get_run_parameters()
GetRunParameters ==
    /\ evtrigger.kind \in {"file", "webhook"}
    /\ LET g == IF evtrigger.kind = "file"
                THEN FileWatcherTrigger_get_run_parameters(evtrigger)
                ELSE WebhookTrigger_get_run_parameters(evtrigger)
       IN /\ evtrigger' = g.trigger
          /\ lastCall' = [NoCall EXCEPT !.op = "get_run_parameters", !.params = g.params]
    /\ UNCHANGED <<pipelineVars, cronVars, monitorVars>>

InitEventIdle ==
    /\ evtrigger = NoEventTrigger
    /\ lastCall = NoCall

\* ---------------------------------------------------------------------
\* monitor.py: TriggerMonitor
\* ---------------------------------------------------------------------

\* The pipelines the registry can hold: p runs a then b, q is a single
\* step or a step that depends on itself.
Pipeline_p ==
    add_step(add_step(Pipeline_init("p"), [name |-> "a", impl |-> "models"], <<>>).pipeline,
             [name |-> "b", impl |-> "models"], <<"a">>).pipeline

Pipeline_q_single ==
    add_step(Pipeline_init("q"), [name |-> "c", impl |-> "models"], <<>>).pipeline

Pipeline_q_cyclic ==
    add_step(Pipeline_init("q"), [name |-> "c", impl |-> "models"], <<"c">>).pipeline

\* PIPELINE_REGISTRY after loading: q may be missing
PipelineRegistries ==
    {"p" :> Pipeline_p,
     ("p" :> Pipeline_p) @@ ("q" :> Pipeline_q_single),
     ("p" :> Pipeline_p) @@ ("q" :> Pipeline_q_cyclic)}

\* A poll-capable trigger: a BaseTrigger subclass that implements check()
PollTrigger(trigger_id, pipeline_name) ==
    [kind |-> "poll", trigger_id |-> trigger_id, pipeline_name |-> pipeline_name]

\* The triggers a trigger module can register
TriggerObjects ==
    {PollTrigger("poll1", "p"),
     PollTrigger("poll2", "q"),
     WebhookTrigger_init("webhook1", "q", <<"/", "r", "u", "n">>, <<>>).trigger}

\* TriggerRegistry._triggers after loading, in registration order
TriggerRegistries == SeqsUpTo(TriggerObjects, MaxTriggers)

\* TriggerRegistry.get_all_triggers: a copy of the dict
get_all_triggers(registry) == registry

\* isinstance(trigger, (FileWatcherTrigger, WebhookTrigger))
is_event_trigger(trg) == trg.kind \in {"file", "webhook"}

\* What a poll-capable trigger's check() does on one call
CheckOutcomes == {"None", "TriggerRunInfo", "raise"}

\* check() of a poll-capable trigger with the given outcome
BaseTrigger_check(trg, outcome) ==
    IF outcome = "TriggerRunInfo"
    THEN [fired |-> TRUE,
          run_info |-> [pipeline_name |-> trg.pipeline_name,
                        parameters |-> BaseTrigger_get_run_parameters(trg),
                        trigger_id |-> trg.trigger_id],
          raised |-> NoError]
    ELSE [fired |-> FALSE,
          run_info |-> NoRunInfo,
          raised |-> IF outcome = "raise" THEN PlainException(trg.trigger_id) ELSE NoError]

\* isinstance(e, Exception): every exception of the model derives from Exception
isinstance_Exception(e) ==
    e.type \in {"Exception", "StepExecutionError", "CyclicDependencyError", "KeyError"}

\* One call of _run_pipeline: where it is, the engine run it started, how
\* it ended and the exception that left it
NoDispatch ==
    [pc |-> "idle", run_info |-> NoRunInfo, run |-> NoRun, outcome |-> "None",
     raised |-> NoError]

\* engine.run(parameters=run_info.parameters) up to the step loop; the
\* parameters of a trigger always hold its trigger id, so `parameters or {}`
\* is the dict given
engine_run_begin(p, parameters, execution_order, order_raised) ==
    LET r == run_begin(p, "None", "run_info.parameters", execution_order, order_raised)
    IN [r EXCEPT !.context.parameters = parameters, !.args.parameters = parameters]

\* Mutant of _run_pipeline_begin: the registry is indexed without the lookup test.
_run_pipeline_begin_unchecked(registry, run_info) ==
    IF run_info.pipeline_name \notin DOMAIN registry
    THEN {[NoDispatch EXCEPT !.pc = "done", !.run_info = run_info,
                             !.outcome = "not_found", !.raised = [type |-> "KeyError"]]}
    ELSE LET p == registry[run_info.pipeline_name]
             eo == _get_execution_order(p)
         IN IF eo.raised # NoError
            THEN {[NoDispatch EXCEPT !.pc = "running", !.run_info = run_info,
                      !.run = engine_run_begin(p, run_info.parameters, <<>>, eo.raised)]}
            ELSE {[NoDispatch EXCEPT !.pc = "running", !.run_info = run_info,
                      !.run = engine_run_begin(p, run_info.parameters, order, NoError)] :
                    order \in eo.orders}

\* Mutant of _run_pipeline_begin: one engine, made for the first pipeline
\* of the registry, serves every request.
_run_pipeline_begin_shared_engine(registry, run_info) ==
    IF run_info.pipeline_name \notin DOMAIN registry
    THEN {[NoDispatch EXCEPT !.pc = "done", !.run_info = run_info,
                             !.outcome = "not_found"]}
    ELSE LET p == registry["p"]
             eo == _get_execution_order(p)
         IN IF eo.raised # NoError
            THEN {[NoDispatch EXCEPT !.pc = "running", !.run_info = run_info,
                      !.run = engine_run_begin(p, run_info.parameters, <<>>, eo.raised)]}
            ELSE {[NoDispatch EXCEPT !.pc = "running", !.run_info = run_info,
                      !.run = engine_run_begin(p, run_info.parameters, order, NoError)] :
                    order \in eo.orders}

\* _run_pipeline from its call to the start of the engine's step loop: the
\* calls it can become (one per execution order the sort can yield)
_run_pipeline_begin(registry, run_info) ==
    IF run_info.pipeline_name \notin DOMAIN registry
    THEN {[NoDispatch EXCEPT !.pc = "done", !.run_info = run_info,
                             !.outcome = "not_found"]}
    ELSE LET p == registry[run_info.pipeline_name]
             eo == _get_execution_order(p)
         IN IF eo.raised # NoError
            THEN {[NoDispatch EXCEPT !.pc = "running", !.run_info = run_info,
                      !.run = engine_run_begin(p, run_info.parameters, <<>>, eo.raised)]}
            ELSE {[NoDispatch EXCEPT !.pc = "running", !.run_info = run_info,
                      !.run = engine_run_begin(p, run_info.parameters, order, NoError)] :
                    order \in eo.orders}

\* Mutant of run_in_progress: the step loop looks at the stop event.
run_in_progress_until_stop(d) ==
    /\ d.pc = "running" /\ d.run.pc = "running" /\ d.run.pos <= Len(d.run.execution_order)
    /\ ~monitor._stop_event

\* The engine run of a call has a step left to execute
run_in_progress(d) ==
    d.pc = "running" /\ d.run.pc = "running" /\ d.run.pos <= Len(d.run.execution_order)

\* One iteration of the engine's step loop inside _run_pipeline
_run_pipeline_step(d, registry, fn) ==
    [d EXCEPT !.run = run_step(d.run, registry[d.run_info.pipeline_name], fn)]

\* Mutant of _run_pipeline_end: the engine's exception is not caught.
_run_pipeline_end_propagates(d) ==
    IF d.run.pc = "raised"
    THEN [d EXCEPT !.pc = "done", !.outcome = "failed", !.raised = d.run.raised]
    ELSE [d EXCEPT !.pc = "done", !.outcome = "completed", !.run.pc = "returned"]

\* _run_pipeline once engine.run has returned or raised: `except Exception`
_run_pipeline_end(d) ==
    IF d.run.pc = "raised"
    THEN [d EXCEPT !.pc = "done", !.outcome = "failed",
                   !.raised = IF isinstance_Exception(d.run.raised)
                              THEN NoError ELSE d.run.raised]
    ELSE [d EXCEPT !.pc = "done", !.outcome = "completed", !.run.pc = "returned"]

\* TriggerMonitor once start() has returned
MonitorRunning(registry) ==
    [_stop_event |-> FALSE,
     _threads |-> IF \E i \in 1..Len(registry) : registry[i].kind = "webhook"
                  THEN <<"server_thread", "poll_thread">> ELSE <<"poll_thread">>,
     _watchdog_observer |-> "None",
     watches |-> {},
     _flask_server |-> IF \E i \in 1..Len(registry) : registry[i].kind = "webhook"
                       THEN "BaseWSGIServer" ELSE "None"]

NoMonitor ==
    [_stop_event |-> FALSE, _threads |-> <<>>, _watchdog_observer |-> "None",
     watches |-> {}, _flask_server |-> "None"]

\* The poll thread: its place in _poll_triggers, the trigger dict of the
\* tick and the index of the trigger at hand, its _run_pipeline call, and
\* for the tick under way the triggers checked, those whose check()
\* returned a TriggerRunInfo, and those dispatched
NoPoll ==
    [pc |-> "None", i |-> 1, triggers |-> <<>>, d |-> NoDispatch,
     checked |-> {}, fired |-> {}, dispatched |-> {}]

\* A request in view_func: its place, the trigger of the route, its
\* _run_pipeline call and the response returned
NoResponse == [status_code |-> 0, status |-> "None", message |-> "None"]

NoHttp == [pc |-> "None", trigger_id |-> "None", d |-> NoDispatch, response |-> NoResponse]

\* No request: a request thread that has nothing to handle
NoRequest ==
    [method |-> "None", path |-> <<>>, args |-> "None",
     headers |-> [h \in {"Content-Type"} |-> "None"], data |-> "None"]

\* A request thread of the threaded listener: its place in view_func, the
\* request it handles, the place in the registry of the trigger its route
\* is bound to, the TriggerRunInfo it built and the status it answered
NoHandler ==
    [pc |-> "idle", request |-> NoRequest, k |-> 0, run_info |-> NoRunInfo, status_code |-> 0]

NoHandlers == [t \in 1..MaxHandlers |-> NoHandler]

\* Top of the while loop of _poll_triggers: the stop test, then the copy of
\* the trigger dict that the tick iterates over
PollTick ==
    /\ poll.pc = "tick"
    /\ poll' = IF monitor._stop_event
               THEN [poll EXCEPT !.pc = "stopped"]
               ELSE [poll EXCEPT !.pc = "check", !.i = 1,
                                 !.triggers = get_all_triggers(trigger_registry),
                                 !.d = NoDispatch,
                                 !.checked = {}, !.fired = {}, !.dispatched = {}]
    /\ UNCHANGED <<pipelineVars, cronVars, eventVars, fileVars,
                   pipeline_registry, trigger_registry, monitor, http, handlers, previous>>

\* Mutant of PollCheck: an exception of check() ends the thread.
PollCheck_exception_ends_loop(outcome) ==
    /\ poll.pc = "check"
    /\ poll' =
         IF poll.i > Len(poll.triggers)
         THEN [poll EXCEPT !.pc = "wait"]
         ELSE LET trg == poll.triggers[poll.i]
                  c == BaseTrigger_check(trg, outcome)
              IN IF is_event_trigger(trg)
                 THEN [poll EXCEPT !.i = @ + 1]
                 ELSE IF c.raised # NoError
                 THEN [poll EXCEPT !.pc = "stopped",
                                   !.checked = @ \cup {trg.trigger_id}]
                 ELSE IF c.fired
                 THEN [poll EXCEPT !.pc = "dispatch",
                                   !.d = [NoDispatch EXCEPT !.pc = "call",
                                                            !.run_info = c.run_info],
                                   !.checked = @ \cup {trg.trigger_id},
                                   !.fired = @ \cup {trg.trigger_id}]
                 ELSE [poll EXCEPT !.i = @ + 1,
                                   !.checked = @ \cup {trg.trigger_id}]
    /\ UNCHANGED <<pipelineVars, cronVars, eventVars, fileVars,
                   pipeline_registry, trigger_registry, monitor, http, handlers, previous>>

\* One iteration of the for loop up to the call of _run_pipeline: the
\* isinstance test and trigger.check(); an exception leaves the for loop
\* for the except clause of the tick
PollCheck(outcome) ==
    /\ poll.pc = "check"
    /\ poll' =
         IF poll.i > Len(poll.triggers)
         THEN [poll EXCEPT !.pc = "wait"]
         ELSE LET trg == poll.triggers[poll.i]
                  c == BaseTrigger_check(trg, outcome)
              IN IF is_event_trigger(trg)
                 THEN [poll EXCEPT !.i = @ + 1]
                 ELSE IF c.raised # NoError
                 THEN [poll EXCEPT !.pc = "wait",
                                   !.checked = @ \cup {trg.trigger_id}]
                 ELSE IF c.fired
                 THEN [poll EXCEPT !.pc = "dispatch",
                                   !.d = [NoDispatch EXCEPT !.pc = "call",
                                                            !.run_info = c.run_info],
                                   !.checked = @ \cup {trg.trigger_id},
                                   !.fired = @ \cup {trg.trigger_id}]
                 ELSE [poll EXCEPT !.i = @ + 1,
                                   !.checked = @ \cup {trg.trigger_id}]
    /\ UNCHANGED <<pipelineVars, cronVars, eventVars, fileVars,
                   pipeline_registry, trigger_registry, monitor, http, handlers, previous>>

\* self._run_pipeline(run_info) in the poll thread: lookup and start of the run
PollDispatchCall ==
    /\ poll.pc = "dispatch"
    /\ poll.d.pc = "call"
    /\ \E d \in _run_pipeline_begin(pipeline_registry, poll.d.run_info) :
          poll' = [poll EXCEPT !.d = d,
                               !.dispatched = @ \cup {poll.d.run_info.trigger_id}]
    /\ UNCHANGED <<pipelineVars, cronVars, eventVars, fileVars,
                   pipeline_registry, trigger_registry, monitor, http, handlers, previous>>

\* A step of the engine run in the poll thread
PollRunStep(fn) ==
    /\ poll.pc = "dispatch"
    /\ run_in_progress(poll.d)
    /\ poll' = [poll EXCEPT !.d = _run_pipeline_step(poll.d, pipeline_registry, fn)]
    /\ UNCHANGED <<pipelineVars, cronVars, eventVars, fileVars,
                   pipeline_registry, trigger_registry, monitor, http, handlers, previous>>

\* engine.run returns or raises in the poll thread
PollRunEnd ==
    /\ poll.pc = "dispatch"
    /\ poll.d.pc = "running"
    /\ ~run_in_progress(poll.d)
    /\ poll' = [poll EXCEPT !.d = _run_pipeline_end(poll.d)]
    /\ UNCHANGED <<pipelineVars, cronVars, eventVars, fileVars,
                   pipeline_registry, trigger_registry, monitor, http, handlers, previous>>

\* _run_pipeline is over: the for loop goes on, or the exception that left
\* it is caught by the except clause of the tick
PollDispatchReturn ==
    /\ poll.pc = "dispatch"
    /\ poll.d.pc = "done"
    /\ poll' = IF poll.d.raised = NoError
               THEN [poll EXCEPT !.pc = "check", !.i = @ + 1, !.d = NoDispatch]
               ELSE [poll EXCEPT !.pc = "wait", !.d = NoDispatch]
    /\ UNCHANGED <<pipelineVars, cronVars, eventVars, fileVars,
                   pipeline_registry, trigger_registry, monitor, http, handlers, previous>>

\* self._stop_event.wait(self.poll_interval) returns
PollWait ==
    /\ poll.pc = "wait"
    /\ poll' = [poll EXCEPT !.pc = "tick"]
    /\ UNCHANGED <<pipelineVars, cronVars, eventVars, fileVars,
                   pipeline_registry, trigger_registry, monitor, http, handlers, previous>>

\* The requests sent to the listener
MonitorRequests ==
    {r \in Requests : r.args = "{}" /\ r.data = "{\"run\": 1}"
                      /\ r.headers["Content-Type"] = "application/json"}

\* view_func up to the call of pipeline_runner_func, for a request routed
\* to the trigger at index k: set_triggered_request, get_run_parameters
HttpRequest(k, flask_request) ==
    /\ http.pc \in {"idle", "responded"}
    /\ k \in 1..Len(trigger_registry)
    /\ trigger_registry[k].kind = "webhook"
    /\ flask_request.path = trigger_registry[k].endpoint
    /\ flask_request.method \in Range(trigger_registry[k].methods)
    /\ LET g == WebhookTrigger_get_run_parameters(
                    set_triggered_request(trigger_registry[k], flask_request))
       IN /\ trigger_registry' = [trigger_registry EXCEPT ![k] = g.trigger]
          /\ http' = [pc |-> "dispatch",
                      trigger_id |-> g.trigger.trigger_id,
                      d |-> [NoDispatch EXCEPT
                               !.pc = "call",
                               !.run_info = [pipeline_name |-> g.trigger.pipeline_name,
                                             parameters |-> g.params,
                                             trigger_id |-> g.trigger.trigger_id]],
                      response |-> NoResponse]
    /\ UNCHANGED <<pipelineVars, cronVars, eventVars, fileVars, pipeline_registry, monitor, poll, handlers, previous>>

\* pipeline_runner_func(run_info) in a request thread: lookup and start of the run
HttpDispatchCall ==
    /\ http.pc = "dispatch"
    /\ http.d.pc = "call"
    /\ \E d \in _run_pipeline_begin(pipeline_registry, http.d.run_info) :
          http' = [http EXCEPT !.d = d]
    /\ UNCHANGED <<pipelineVars, cronVars, eventVars, fileVars,
                   pipeline_registry, trigger_registry, monitor, poll, handlers, previous>>

\* A step of the engine run in a request thread
HttpRunStep(fn) ==
    /\ http.pc = "dispatch"
    /\ run_in_progress(http.d)
    /\ http' = [http EXCEPT !.d = _run_pipeline_step(http.d, pipeline_registry, fn)]
    /\ UNCHANGED <<pipelineVars, cronVars, eventVars, fileVars,
                   pipeline_registry, trigger_registry, monitor, poll, handlers, previous>>

\* engine.run returns or raises in a request thread
HttpRunEnd ==
    /\ http.pc = "dispatch"
    /\ http.d.pc = "running"
    /\ ~run_in_progress(http.d)
    /\ http' = [http EXCEPT !.d = _run_pipeline_end(http.d)]
    /\ UNCHANGED <<pipelineVars, cronVars, eventVars, fileVars,
                   pipeline_registry, trigger_registry, monitor, poll, handlers, previous>>

\* Mutant of dispatch_resolved: the handler does not wait for the run.
dispatch_resolved_early(d) == d.pc \in {"running", "done"}

\* pipeline_runner_func(run_info) has returned or raised
dispatch_resolved(d) == d.pc = "done"

\* The return statements of view_func: 202 after the call, 500 in the except clause
view_func_response(d) ==
    IF d.raised = NoError
    THEN [status_code |-> 202, status |-> "success",
          message |-> <<"Pipeline triggered", d.run_info.pipeline_name>>]
    ELSE [status_code |-> 500, status |-> "error",
          message |-> <<"Failed to trigger pipeline.">>]

\* view_func returns its response
HttpRespond ==
    /\ http.pc = "dispatch"
    /\ dispatch_resolved(http.d)
    /\ http' = [http EXCEPT !.pc = "responded", !.response = view_func_response(http.d)]
    /\ UNCHANGED <<pipelineVars, cronVars, eventVars, fileVars,
                   pipeline_registry, trigger_registry, monitor, poll, handlers, previous>>

\* ---------------------------------------------------------------------
\* triggers/webhook.py: the routes of create_webhook_app and the request
\* threads of the listener (make_server(..., threaded=True))
\* ---------------------------------------------------------------------

\* {trigger.endpoint: trigger for trigger in get_all_triggers().values()
\*  if isinstance(trigger, WebhookTrigger)}: a later trigger with the same
\* endpoint replaces the earlier one. The value is the trigger's place
\* in the registry.
webhook_triggers(registry) ==
    LET ks == {k \in 1..Len(registry) : registry[k].kind = "webhook"}
    IN [e \in {registry[k].endpoint : k \in ks} |->
           CHOOSE k \in ks : /\ registry[k].endpoint = e
                             /\ \A j \in ks : registry[j].endpoint = e => j <= k]

\* The URL map after the add_url_rule calls: one rule per entry of
\* webhook_triggers, with the methods of its trigger. A request is routed
\* to the rule of its path (404 without one, 405 when the rule does not
\* accept the method)
route(registry, flask_request) ==
    LET rules == webhook_triggers(registry)
    IN IF flask_request.path \notin DOMAIN rules
       THEN [status_code |-> 404, k |-> 0]
       ELSE IF flask_request.method \notin Range(registry[rules[flask_request.path]].methods)
            THEN [status_code |-> 405, k |-> 0]
            ELSE [status_code |-> 200, k |-> rules[flask_request.path]]

\* The listener hands a request to thread t: routing, and the call of the
\* view function bound to the route
WebReceive(t, flask_request) ==
    /\ monitor._flask_server # "None"
    /\ handlers[t].pc \in {"idle", "responded"}
    /\ LET r == route(trigger_registry, flask_request)
       IN handlers' = [handlers EXCEPT ![t] =
              IF r.status_code = 200
              THEN [NoHandler EXCEPT !.pc = "set", !.request = flask_request, !.k = r.k]
              ELSE [NoHandler EXCEPT !.pc = "responded", !.request = flask_request,
                                     !.status_code = r.status_code]]
    /\ UNCHANGED <<pipelineVars, cronVars, eventVars, fileVars,
                   pipeline_registry, trigger_registry, monitor, poll, http, previous>>

\* current_trigger.set_triggered_request(request) in thread t
WebSetTriggeredRequest(t) ==
    /\ handlers[t].pc = "set"
    /\ trigger_registry' =
          [trigger_registry EXCEPT ![handlers[t].k] =
              set_triggered_request(@, handlers[t].request)]
    /\ handlers' = [handlers EXCEPT ![t].pc = "get"]
    /\ UNCHANGED <<pipelineVars, cronVars, eventVars, fileVars,
                   pipeline_registry, monitor, poll, http, previous>>

\* What set_triggered_request(request) followed at once by
\* TriggerRunInfo(...) builds: the run info of the request itself
view_func_run_info_own_request(trg, flask_request) ==
    LET g == WebhookTrigger_get_run_parameters(set_triggered_request(trg, flask_request))
    IN [run_info |-> [pipeline_name |-> trg.pipeline_name,
                      parameters |-> g.params,
                      trigger_id |-> trg.trigger_id],
        trigger |-> g.trigger]

\* TriggerRunInfo(pipeline_name, parameters=current_trigger.get_run_parameters(),
\* trigger_id): the run info and the trigger afterwards; the parameters
\* come from what the trigger holds when the call is made
view_func_run_info(trg, flask_request) ==
    LET g == WebhookTrigger_get_run_parameters(trg)
    IN [run_info |-> [pipeline_name |-> trg.pipeline_name,
                      parameters |-> g.params,
                      trigger_id |-> trg.trigger_id],
        trigger |-> g.trigger]

\* run_info = TriggerRunInfo(...) in thread t
WebGetRunParameters(t) ==
    /\ handlers[t].pc = "get"
    /\ LET v == view_func_run_info(trigger_registry[handlers[t].k], handlers[t].request)
       IN /\ trigger_registry' = [trigger_registry EXCEPT ![handlers[t].k] = v.trigger]
          /\ handlers' = [handlers EXCEPT ![t].pc = "run", ![t].run_info = v.run_info]
    /\ UNCHANGED <<pipelineVars, cronVars, eventVars, fileVars,
                   pipeline_registry, monitor, poll, http, previous>>

\* pipeline_runner_func(run_info) and the return statement in thread t;
\* _run_pipeline returns normally whatever the run does (the run itself
\* is followed by HttpDispatchCall to HttpRespond)
WebRespond(t) ==
    /\ handlers[t].pc = "run"
    /\ handlers' =
          [handlers EXCEPT
             ![t].pc = "responded",
             ![t].status_code =
                 view_func_response([NoDispatch EXCEPT !.pc = "done",
                                                       !.run_info = handlers[t].run_info]).status_code]
    /\ UNCHANGED <<pipelineVars, cronVars, eventVars, fileVars,
                   pipeline_registry, trigger_registry, monitor, poll, http, previous>>

\* The file thread: its place in _process_file_events, the file triggers it
\* listed when it began (places in the registry), the event at hand and
\* the place in the for loop, its _run_pipeline call, and for the event at
\* hand the triggers tested, those that matched, and those dispatched
NoFileLoop ==
    [pc |-> "None", file_triggers |-> <<>>, event |-> NoEvent, i |-> 1, d |-> NoDispatch,
     tested |-> {}, matched |-> {}, dispatched |-> {}]

\* The main thread: where it is, its last call on the monitor, the exception
\* that left the call, the threads the call started, the stop() calls made
\* by the finally clause of run_forever, and the triggers whose engine
\* run was under way in a producer thread when stop() last stopped a
\* running monitor
NoMain ==
    [pc |-> "idle", op |-> "None", raised |-> NoError, launched |-> <<>>, stop_calls |-> 0,
     in_flight |-> {}]

InitFileIdle ==
    /\ watchdog_event_queue = <<>>
    /\ fileloop = NoFileLoop
    /\ main = NoMain

\* ---------------------------------------------------------------------
\* A trigger module: constructing and registering triggers
\* ---------------------------------------------------------------------

\* Arguments the constructors are called with: ids and pipeline names that
\* may be empty, and the kind-specific configuration
TriggerIdArgs == {"", "t1", "t2"}

PipelineNameArgs == {"", "p"}

TriggerConfigs ==
    {[kind |-> "cron", trigger_id |-> id, pipeline_name |-> pn, cron_expression |-> e] :
        id \in TriggerIdArgs, pn \in PipelineNameArgs, e \in CronExprs}
    \cup
    {[kind |-> "file", trigger_id |-> id, pipeline_name |-> pn, path |-> path,
      watch_creation |-> wc, watch_modification |-> wm] :
        id \in TriggerIdArgs, pn \in PipelineNameArgs, path \in PathArgs,
        wc \in BOOLEAN, wm \in BOOLEAN}
    \cup
    {[kind |-> "webhook", trigger_id |-> id, pipeline_name |-> pn, endpoint |-> ep] :
        id \in TriggerIdArgs, pn \in PipelineNameArgs, ep \in EndpointArgs}

\* The constructor call of a trigger module for one configuration, at time t
construct(c, t) ==
    IF c.kind = "cron"
    THEN CronTrigger_init(c.trigger_id, c.pipeline_name, c.cron_expression, t)
    ELSE IF c.kind = "file"
    THEN FileWatcherTrigger_init(c.trigger_id, c.pipeline_name, c.path, <<>>, FALSE,
                                 c.watch_creation, c.watch_modification)
    ELSE WebhookTrigger_init(c.trigger_id, c.pipeline_name, c.endpoint, <<>>)

\* TriggerRegistry.register: a dict keeps the place of a key it overwrites
TriggerRegistry_register(registry, trg) ==
    IF \E k \in 1..Len(registry) : registry[k].trigger_id = trg.trigger_id
    THEN [k \in 1..Len(registry) |->
             IF registry[k].trigger_id = trg.trigger_id THEN trg ELSE registry[k]]
    ELSE Append(registry, trg)

\* register_trigger(Trigger(...)) inside try/except ValueError: the
\* constructor runs first, and register is reached only if it returned
ModuleRegister(c) ==
    /\ LET r == construct(c, now)
       IN /\ trigger_registry' = IF r.raised = "None"
                                 THEN TriggerRegistry_register(trigger_registry, r.trigger)
                                 ELSE trigger_registry
          /\ lastCall' = [NoCall EXCEPT !.op = "__init__", !.raised = r.raised]
    /\ UNCHANGED <<pipelineVars, cronVars, evtrigger, pipeline_registry, monitor, poll, http, handlers, previous,
                   fileVars>>

\* ---------------------------------------------------------------------
\* monitor.py: start(), stop() and the file loop
\* ---------------------------------------------------------------------

\* Filesystem triggers a trigger module can register: one for every file
\* below /in, one for the csv files of /in itself
FileTriggerObjects ==
    {FileWatcherTrigger_init("file1", "q", <<"/", "i", "n">>, <<>>, TRUE, TRUE, TRUE).trigger,
     FileWatcherTrigger_init("file2", "p", <<"/", "i", "n">>, <<Pattern_csv>>, FALSE, TRUE,
                             TRUE).trigger}

\* Places in the registry of the FileWatcherTrigger objects, in dict order:
\* [t for t in get_all_triggers().values() if isinstance(t, FileWatcherTrigger)]
RECURSIVE file_triggers_from(_, _)
file_triggers_from(registry, k) ==
    IF k > Len(registry) THEN <<>>
    ELSE (IF registry[k].kind = "file" THEN <<k>> ELSE <<>>)
         \o file_triggers_from(registry, k + 1)

file_triggers_of(registry) == file_triggers_from(get_all_triggers(registry), 1)

\* The for loop of _start_watchdog over file_triggers[k..]: a watch is
\* scheduled for a trigger unless its path is in watched_paths already
RECURSIVE schedule_watches(_, _, _, _)
schedule_watches(registry, file_triggers, k, watches) ==
    IF k > Len(file_triggers) THEN watches
    ELSE LET trg == registry[file_triggers[k]]
         IN schedule_watches(registry, file_triggers, k + 1,
                IF \E w \in watches : w.path = trg.path
                THEN watches
                ELSE watches \cup {[path |-> trg.path, recursive |-> trg.recursive]})

\* _start_watchdog: the observer and the watches it is started with
_start_watchdog(registry) ==
    LET file_triggers == file_triggers_of(registry)
        watches == schedule_watches(registry, file_triggers, 1, {})
    IN IF file_triggers = <<>> \/ watches = {}
       THEN [observer |-> "None", watches |-> {}]
       ELSE [observer |-> "Observer", watches |-> watches]

\* create_webhook_app: its second statement is os.urandom(24), and the
\* module webhook.py does not import os
create_webhook_app(registry) ==
    [app |-> "None", raised |-> [type |-> "NameError"]]

\* _start_webhook_server: nothing without a WebhookTrigger; otherwise the
\* server made for the app, or the exception of create_webhook_app
_start_webhook_server(registry) ==
    IF ~\E k \in 1..Len(registry) : registry[k].kind = "webhook"
    THEN [server |-> "None", threads |-> <<>>, raised |-> NoError]
    ELSE LET a == create_webhook_app(registry)
         IN IF a.raised # NoError
            THEN [server |-> "None", threads |-> <<>>, raised |-> a.raised]
            ELSE [server |-> "BaseWSGIServer", threads |-> <<"server_thread">>,
                  raised |-> NoError]

\* Mutant of TriggerMonitor_start: a monitor with threads is started again.
TriggerMonitor_start_again(mon, registry) ==
    LET w == _start_watchdog(registry)
        file == IF w.observer # "None" THEN <<"file_thread">> ELSE <<>>
        s == _start_webhook_server(registry)
        m1 == [mon EXCEPT !._stop_event = FALSE,
                          !._watchdog_observer = w.observer,
                          !.watches = w.watches,
                          !._threads = @ \o file]
    IN IF s.raised # NoError
       THEN [monitor |-> m1, launched |-> file, raised |-> s.raised]
       ELSE [monitor |-> [m1 EXCEPT !._flask_server = s.server,
                                    !._threads = @ \o s.threads \o <<"poll_thread">>],
             launched |-> file \o s.threads \o <<"poll_thread">>,
             raised |-> NoError]

\* start(): the monitor afterwards, the threads it started, in order,
\* and the exception that left it
TriggerMonitor_start(mon, registry) ==
    IF mon._threads # <<>>
    THEN [monitor |-> mon, launched |-> <<>>, raised |-> NoError]
    ELSE LET w == _start_watchdog(registry)
             file == IF w.observer # "None" THEN <<"file_thread">> ELSE <<>>
             s == _start_webhook_server(registry)
             m1 == [mon EXCEPT !._stop_event = FALSE,
                               !._watchdog_observer = w.observer,
                               !.watches = w.watches,
                               !._threads = @ \o file]
         IN IF s.raised # NoError
            THEN [monitor |-> m1, launched |-> file, raised |-> s.raised]
            ELSE [monitor |-> [m1 EXCEPT !._flask_server = s.server,
                                         !._threads = @ \o s.threads \o <<"poll_thread">>],
                  launched |-> file \o s.threads \o <<"poll_thread">>,
                  raised |-> NoError]

\* Mutant of TriggerMonitor_stop: the stop event is left as it was.
TriggerMonitor_stop_no_signal(mon, q) ==
    IF mon._threads = <<>> /\ mon._watchdog_observer = "None" /\ mon._flask_server = "None"
    THEN [monitor |-> mon, queue |-> q]
    ELSE [monitor |-> [mon EXCEPT !._watchdog_observer = "None",
                                  !.watches = {},
                                  !._flask_server = "None",
                                  !._threads = <<>>],
          queue |-> IF mon._watchdog_observer # "None" THEN Append(q, NoEvent) ELSE q]

\* stop(): the monitor and the event queue afterwards
TriggerMonitor_stop(mon, q) ==
    IF mon._threads = <<>> /\ mon._watchdog_observer = "None" /\ mon._flask_server = "None"
    THEN [monitor |-> mon, queue |-> q]
    ELSE [monitor |-> [mon EXCEPT !._stop_event = TRUE,
                                  !._watchdog_observer = "None",
                                  !.watches = {},
                                  !._flask_server = "None",
                                  !._threads = <<>>],
          queue |-> IF mon._watchdog_observer # "None" THEN Append(q, NoEvent) ELSE q]

\* The events the file system produces while the monitor runs
WatcherEvents ==
    {[cls |-> "FileCreatedEvent", src_path |-> path_str(<<Name_in>>, Name_csv)],
     [cls |-> "FileModifiedEvent", src_path |-> path_str(<<Name_in, Name_sub>>, Name_txt)],
     [cls |-> "FileDeletedEvent", src_path |-> path_str(<<Name_in>>, Name_csv)],
     [cls |-> "FileCreatedEvent", src_path |-> path_str(<<Name_in2>>, Name_csv)]}

\* The observer calls the handler for an event in a watched directory, or
\* below it when the watch is recursive
observer_emits(watches, event) ==
    \E w \in watches :
        \/ os_path_dirname(event.src_path) = w.path
        \/ w.recursive /\ startswith(event.src_path, w.path \o <<"/">>)

\* Mutant of queue_put: the entry is placed at the front.
queue_put_front(q, item) == <<item>> \o q

\* queue.Queue.put
queue_put(q, item) == Append(q, item)

\* _PipelineFileSystemEventHandler.on_any_event: the queue afterwards
on_any_event(q, event) ==
    IF event.cls \in {"FileCreatedEvent", "FileModifiedEvent"}
    THEN queue_put(q, event)
    ELSE q

\* The observer thread delivers an event to the handler
WatchdogEvent(event) ==
    /\ monitor._watchdog_observer # "None"
    /\ observer_emits(monitor.watches, event)
    /\ Len(watchdog_event_queue) < MaxQueue
    /\ watchdog_event_queue' = on_any_event(watchdog_event_queue, event)
    /\ UNCHANGED <<pipelineVars, cronVars, eventVars, pipeline_registry, trigger_registry,
                   monitor, poll, http, handlers, previous, fileloop, main>>

\* _process_file_events up to its while loop, run by a thread just started
file_thread_begin(registry) ==
    LET file_triggers == file_triggers_of(registry)
    IN [NoFileLoop EXCEPT !.pc = IF file_triggers = <<>> THEN "stopped" ELSE "loop",
                          !.file_triggers = file_triggers]

\* The test of the while loop of _process_file_events
FileLoopTest ==
    /\ fileloop.pc = "loop"
    /\ fileloop' = [fileloop EXCEPT !.pc = IF monitor._stop_event THEN "stopped" ELSE "get"]
    /\ UNCHANGED <<pipelineVars, cronVars, eventVars, pipeline_registry, trigger_registry,
                   monitor, poll, http, handlers, previous, watchdog_event_queue, main>>

\* The file loop once get() has returned an entry: break on the sentinel,
\* otherwise the for loop over file_triggers begins
file_loop_take(fl, event) ==
    IF event = NoEvent
    THEN [fl EXCEPT !.pc = "stopped"]
    ELSE [fl EXCEPT !.pc = "match", !.event = event, !.i = 1,
                    !.tested = {}, !.matched = {}, !.dispatched = {}]

\* self._watchdog_event_queue.get(block=True, timeout=1.0) returns the
\* oldest entry
FileLoopGet ==
    /\ fileloop.pc = "get"
    /\ watchdog_event_queue # <<>>
    /\ watchdog_event_queue' = Tail(watchdog_event_queue)
    /\ fileloop' = file_loop_take(fileloop, Head(watchdog_event_queue))
    /\ UNCHANGED <<pipelineVars, cronVars, eventVars, pipeline_registry, trigger_registry,
                   monitor, poll, http, handlers, previous, main>>

\* get() raises queue.Empty after the timeout: continue
FileLoopTimeout ==
    /\ fileloop.pc = "get"
    /\ watchdog_event_queue = <<>>
    /\ fileloop' = [fileloop EXCEPT !.pc = "loop"]
    /\ UNCHANGED <<pipelineVars, cronVars, eventVars, pipeline_registry, trigger_registry,
                   monitor, poll, http, handlers, previous, watchdog_event_queue, main>>

\* Mutant of file_loop_match: the for loop ends at the first match.
file_loop_match_first_only(fl, registry) ==
    LET k == fl.file_triggers[fl.i]
        trg == registry[k]
        g == FileWatcherTrigger_get_run_parameters(set_triggered_event(trg, fl.event))
    IN IF ~matches_event(trg, fl.event)
       THEN [fileloop |-> [fl EXCEPT !.i = @ + 1, !.tested = @ \cup {trg.trigger_id}],
             registry |-> registry]
       ELSE [fileloop |->
                [fl EXCEPT !.pc = "dispatch",
                           !.i = Len(fl.file_triggers),
                           !.d = [NoDispatch EXCEPT
                                    !.pc = "call",
                                    !.run_info = [pipeline_name |-> trg.pipeline_name,
                                                  parameters |-> g.params,
                                                  trigger_id |-> trg.trigger_id]],
                           !.tested = @ \cup {trg.trigger_id},
                           !.matched = @ \cup {trg.trigger_id}],
             registry |-> [registry EXCEPT ![k] = g.trigger]]

\* One iteration of the for loop up to the call of _run_pipeline:
\* matches_event, set_triggered_event, get_run_parameters
file_loop_match(fl, registry) ==
    LET k == fl.file_triggers[fl.i]
        trg == registry[k]
        g == FileWatcherTrigger_get_run_parameters(set_triggered_event(trg, fl.event))
    IN IF ~matches_event(trg, fl.event)
       THEN [fileloop |-> [fl EXCEPT !.i = @ + 1, !.tested = @ \cup {trg.trigger_id}],
             registry |-> registry]
       ELSE [fileloop |->
                [fl EXCEPT !.pc = "dispatch",
                           !.d = [NoDispatch EXCEPT
                                    !.pc = "call",
                                    !.run_info = [pipeline_name |-> trg.pipeline_name,
                                                  parameters |-> g.params,
                                                  trigger_id |-> trg.trigger_id]],
                           !.tested = @ \cup {trg.trigger_id},
                           !.matched = @ \cup {trg.trigger_id}],
             registry |-> [registry EXCEPT ![k] = g.trigger]]

\* The for loop over file_triggers: its next iteration, or its end
FileLoopMatch ==
    /\ fileloop.pc = "match"
    /\ LET r == IF fileloop.i > Len(fileloop.file_triggers)
                THEN [fileloop |-> [fileloop EXCEPT !.pc = "loop"],
                      registry |-> trigger_registry]
                ELSE file_loop_match(fileloop, trigger_registry)
       IN /\ fileloop' = r.fileloop
          /\ trigger_registry' = r.registry
    /\ UNCHANGED <<pipelineVars, cronVars, eventVars, pipeline_registry,
                   monitor, poll, http, handlers, previous, watchdog_event_queue, main>>

\* self._run_pipeline(run_info) in the file thread: lookup and start of the run
FileDispatchCall ==
    /\ fileloop.pc = "dispatch"
    /\ fileloop.d.pc = "call"
    /\ \E d \in _run_pipeline_begin(pipeline_registry, fileloop.d.run_info) :
          fileloop' = [fileloop EXCEPT !.d = d,
                                       !.dispatched = @ \cup {fileloop.d.run_info.trigger_id}]
    /\ UNCHANGED <<pipelineVars, cronVars, eventVars, pipeline_registry, trigger_registry,
                   monitor, poll, http, handlers, previous, watchdog_event_queue, main>>

\* A step of the engine run in the file thread
FileRunStep(fn) ==
    /\ fileloop.pc = "dispatch"
    /\ run_in_progress(fileloop.d)
    /\ fileloop' = [fileloop EXCEPT !.d = _run_pipeline_step(fileloop.d, pipeline_registry, fn)]
    /\ UNCHANGED <<pipelineVars, cronVars, eventVars, pipeline_registry, trigger_registry,
                   monitor, poll, http, handlers, previous, watchdog_event_queue, main>>

\* engine.run returns or raises in the file thread
FileRunEnd ==
    /\ fileloop.pc = "dispatch"
    /\ fileloop.d.pc = "running"
    /\ ~run_in_progress(fileloop.d)
    /\ fileloop' = [fileloop EXCEPT !.d = _run_pipeline_end(fileloop.d)]
    /\ UNCHANGED <<pipelineVars, cronVars, eventVars, pipeline_registry, trigger_registry,
                   monitor, poll, http, handlers, previous, watchdog_event_queue, main>>

\* _run_pipeline is over: the for loop goes on; an exception that left it
\* is caught nowhere in _process_file_events and ends the thread
FileDispatchReturn ==
    /\ fileloop.pc = "dispatch"
    /\ fileloop.d.pc = "done"
    /\ fileloop' = IF fileloop.d.raised = NoError
                   THEN [fileloop EXCEPT !.pc = "match", !.i = @ + 1, !.d = NoDispatch]
                   ELSE [fileloop EXCEPT !.pc = "died", !.d = NoDispatch]
    /\ UNCHANGED <<pipelineVars, cronVars, eventVars, pipeline_registry, trigger_registry,
                   monitor, poll, http, handlers, previous, watchdog_event_queue, main>>

\* The threads of an earlier start() call. stop() joins no thread and
\* empties _threads, so a thread that has not ended goes on running
\* once start() has replaced it. Such a thread is followed by its place
\* only: inside an iteration begun earlier ("busy"), at the test of its
\* while loop ("test"), or past the test (the poll loop in a new tick,
\* "polling"; the file loop in get(), "get"). What its runs do to the
\* triggers and pipelines is not followed.
NoPrevious == [poll |-> {}, fileloop |-> {}]

\* The place of a replaced poll thread, none when the thread has ended
retired_poll(p) ==
    IF p.pc \in {"None", "stopped"} THEN {}
    ELSE IF p.pc = "tick" THEN {"test"} ELSE {"busy"}

\* The place of a replaced file thread, none when the thread has ended
retired_fileloop(fl) ==
    IF fl.pc \in {"None", "stopped"} THEN {}
    ELSE IF fl.pc = "loop" THEN {"test"}
    ELSE IF fl.pc = "get" THEN {"get"} ELSE {"busy"}

\* The threads start() has started begin to run: the poll thread at the
\* top of its loop, the file thread at the top of _process_file_events;
\* the threads they replace stay alive
threads_started(launched, registry, p, fl, prev) ==
    [poll |-> IF "poll_thread" \in Range(launched) THEN [NoPoll EXCEPT !.pc = "tick"] ELSE p,
     fileloop |-> IF "file_thread" \in Range(launched) THEN file_thread_begin(registry) ELSE fl,
     previous |->
        [poll |-> IF "poll_thread" \in Range(launched)
                  THEN prev.poll \cup retired_poll(p) ELSE prev.poll,
         fileloop |-> IF "file_thread" \in Range(launched)
                      THEN prev.fileloop \cup retired_fileloop(fl) ELSE prev.fileloop]]

\* The triggers whose engine run is under way in a producer thread
runs_in_flight ==
    {d.run_info.trigger_id : d \in {x \in {poll.d, fileloop.d} : run_in_progress(x)}}

\* main.in_flight after a stop() call that left the monitor as mon: the
\* runs under way when stop() last stopped a running monitor
in_flight_at_stop(mon) == IF mon # monitor THEN runs_in_flight ELSE main.in_flight

\* monitor.start() called from the main thread
MainStart ==
    /\ main.pc = "idle"
    /\ LET s == TriggerMonitor_start(monitor, trigger_registry)
           t == threads_started(s.launched, trigger_registry, poll, fileloop, previous)
       IN /\ monitor' = s.monitor
          /\ poll' = t.poll
          /\ fileloop' = t.fileloop
          /\ previous' = t.previous
          /\ main' = [NoMain EXCEPT !.op = "start", !.raised = s.raised,
                                    !.launched = s.launched]
    /\ UNCHANGED <<pipelineVars, cronVars, eventVars, pipeline_registry, trigger_registry,
                   http, handlers, watchdog_event_queue>>

\* monitor.stop() called from the main thread
MainStop ==
    /\ main.pc = "idle"
    /\ Len(watchdog_event_queue) <= MaxQueue
    /\ LET s == TriggerMonitor_stop(monitor, watchdog_event_queue)
       IN /\ monitor' = s.monitor
          /\ watchdog_event_queue' = s.queue
          /\ main' = [NoMain EXCEPT !.op = "stop", !.in_flight = in_flight_at_stop(s.monitor)]
    /\ UNCHANGED <<pipelineVars, cronVars, eventVars, pipeline_registry, trigger_registry,
                   poll, http, handlers, previous, fileloop>>

\* A replaced poll thread goes on in _poll_triggers: the rest of its
\* iteration up to the return of wait() (an Event.wait returns at once or
\* after poll_interval), the test of the while loop, which ends the
\* thread when the stop event is set, and the tick after the test
PreviousPollStep(place) ==
    /\ place \in previous.poll
    /\ previous' =
          [previous EXCEPT !.poll =
              (@ \ {place}) \cup
              (IF place = "test"
               THEN (IF monitor._stop_event THEN {} ELSE {"polling"})
               ELSE {"test"})]
    /\ UNCHANGED <<pipelineVars, cronVars, eventVars, pipeline_registry, trigger_registry,
                   monitor, poll, http, handlers, fileVars>>

\* A replaced file thread goes on in _process_file_events: the events of
\* the for loop, the test of the while loop, and get(), which takes the
\* oldest entry of the queue that all file threads of the monitor share
PreviousFileStep(place) ==
    /\ place \in previous.fileloop
    /\ LET next == IF place = "test"
                   THEN (IF monitor._stop_event THEN {} ELSE {"get"})
                   ELSE IF place = "busy" THEN {"test"}
                   ELSE IF watchdog_event_queue = <<>> THEN {"test"}
                   ELSE IF Head(watchdog_event_queue) = NoEvent THEN {} ELSE {"busy"}
       IN previous' = [previous EXCEPT !.fileloop = (@ \ {place}) \cup next]
    /\ watchdog_event_queue' =
          IF place = "get" /\ watchdog_event_queue # <<>>
          THEN Tail(watchdog_event_queue) ELSE watchdog_event_queue
    /\ UNCHANGED <<pipelineVars, cronVars, eventVars, pipeline_registry, trigger_registry,
                   monitor, poll, http, handlers, fileloop, main>>

\* run_forever() up to its while loop: start() is called before the try
\* statement, so its exception leaves run_forever at once
RunForeverCall ==
    /\ main.pc = "idle"
    /\ LET s == TriggerMonitor_start(monitor, trigger_registry)
           t == threads_started(s.launched, trigger_registry, poll, fileloop, previous)
       IN /\ monitor' = s.monitor
          /\ poll' = t.poll
          /\ fileloop' = t.fileloop
          /\ previous' = t.previous
          /\ main' = [NoMain EXCEPT !.pc = IF s.raised = NoError THEN "run_forever" ELSE "idle",
                                    !.op = "run_forever", !.raised = s.raised,
                                    !.launched = s.launched]
    /\ UNCHANGED <<pipelineVars, cronVars, eventVars, pipeline_registry, trigger_registry,
                   http, handlers, watchdog_event_queue>>

\* The ways the while loop of run_forever is left
RunForeverExits == {"KeyboardInterrupt", "signal_handler", "stop_event"}

\* run_forever from its while loop to its end: the signal handler of the
\* monitor command calls stop() and sys.exit(0) inside time.sleep; the
\* finally clause calls stop() whichever way the loop was left
run_forever_finally(mon, q, exit) ==
    LET handler == IF exit = "signal_handler"
                   THEN TriggerMonitor_stop(mon, q) ELSE [monitor |-> mon, queue |-> q]
        finally == TriggerMonitor_stop(handler.monitor, handler.queue)
    IN [monitor |-> finally.monitor, queue |-> finally.queue,
        stop_calls |-> 1,
        raised |-> IF exit = "signal_handler" THEN [type |-> "SystemExit"] ELSE NoError]

\* The while loop of run_forever ends: by KeyboardInterrupt, by the signal
\* handler, or because the stop event was found set
RunForeverExit(exit) ==
    /\ main.pc = "run_forever"
    /\ exit = "stop_event" => monitor._stop_event
    /\ Len(watchdog_event_queue) <= MaxQueue
    /\ LET r == run_forever_finally(monitor, watchdog_event_queue, exit)
       IN /\ monitor' = r.monitor
          /\ watchdog_event_queue' = r.queue
          /\ main' = [main EXCEPT !.pc = "idle", !.raised = r.raised,
                                  !.stop_calls = r.stop_calls,
                                  !.in_flight = in_flight_at_stop(r.monitor)]
    /\ UNCHANGED <<pipelineVars, cronVars, eventVars, pipeline_registry, trigger_registry,
                   poll, http, handlers, previous, fileloop>>

\* stop() called by another thread while the main thread is in run_forever
ExternalStop ==
    /\ main.pc = "run_forever"
    /\ Len(watchdog_event_queue) <= MaxQueue
    /\ LET s == TriggerMonitor_stop(monitor, watchdog_event_queue)
       IN /\ monitor' = s.monitor
          /\ watchdog_event_queue' = s.queue
          /\ main' = [main EXCEPT !.in_flight = in_flight_at_stop(s.monitor)]
    /\ UNCHANGED <<pipelineVars, cronVars, eventVars, pipeline_registry, trigger_registry,
                   poll, http, handlers, previous, fileloop>>

InitMonitorIdle ==
    /\ pipeline_registry = <<>>
    /\ trigger_registry = <<>>
    /\ monitor = NoMonitor
    /\ poll = NoPoll
    /\ http = NoHttp
    /\ handlers = NoHandlers
    /\ previous = NoPrevious
    /\ InitFileIdle

InitCronIdle ==
    /\ now = 0
    /\ trigger = NoTrigger
    /\ lastCheck = NoCheck
    /\ poller = [started |-> FALSE, prev_at |-> 0]

InitPipelineIdle ==
    /\ pipeline = Pipeline_init("p")
    /\ lastAdd = NoAdd
    /\ run = NoRun

\* Building a pipeline: any sequence of add_step calls, failed ones included.
Init == InitPipelineIdle /\ InitCronIdle /\ InitEventIdle /\ InitMonitorIdle

Next ==
    \E name \in Names, impl \in StepImpls, depends_on \in SeqsUpTo(Names, MaxDeps) :
        AddStep(name, impl, depends_on)

Spec == Init /\ [][Next]_vars

\* Building a pipeline from objects of any kind
NextObjects ==
    \E obj \in AddObjects, depends_on \in SeqsUpTo(Names, MaxDeps) :
        AddObject(obj, depends_on)

SpecObjects == Init /\ [][NextObjects]_vars

\* The pipelines that k add_step calls can build, failed calls included.
RECURSIVE BuiltPipelines(_)
BuiltPipelines(k) ==
    IF k = 0
    THEN {Pipeline_init("p")}
    ELSE LET prev == BuiltPipelines(k - 1)
         IN prev \cup
            UNION {{add_step(p, [name |-> name, impl |-> impl], depends_on).pipeline :
                       name \in Names \ DOMAIN p.steps,
                       impl \in {i \in StepImpls :
                                   \A s \in DOMAIN p.steps : p.steps[s].impl = i},
                       depends_on \in SeqsUpTo(Names, MaxDeps)} : p \in prev}

\* Running a pipeline that has been built. A call registers a new name or
\* changes nothing, so one call per name builds every pipeline there is.
InitEngine ==
    /\ pipeline \in BuiltPipelines(Cardinality(Names))
    /\ lastAdd = NoAdd
    /\ run = NoRun
    /\ InitCronIdle
    /\ InitEventIdle
    /\ InitMonitorIdle

NextEngine ==
    \/ \E run_id \in RunIds, parameters \in ParamArgs : RunStart(run_id, parameters)
    \/ \E fn \in StepFuncs : RunStep(fn)
    \/ RunReturn

SpecEngine == InitEngine /\ [][NextEngine]_vars

\* A schedule trigger checked at arbitrary times.
InitCron == InitPipelineIdle /\ InitCronIdle /\ InitEventIdle /\ InitMonitorIdle

NextCron ==
    \/ \E cron_expression \in CronExprs : CronConstruct(cron_expression)
    \/ \E d \in Delays : Advance(d)
    \/ CronCheck

SpecCron == InitCron /\ [][NextCron]_vars

\* The poll loop of the monitor with a poll interval of one minute.
PollIntervalMinute == 60

\* First tick of the poll loop: check() at once, within a minute of construction
PollFirst ==
    /\ trigger.constructed
    /\ ~poller.started
    /\ now - trigger.created_at <= PollIntervalMinute
    /\ LET c == CronTrigger_check(trigger, now)
       IN /\ trigger' = c.trigger
          /\ lastCheck' = check_record(trigger.last_scheduled_fire_time, c)
    /\ poller' = [started |-> TRUE, prev_at |-> trigger.created_at]
    /\ UNCHANGED <<pipelineVars, eventVars, monitorVars, now>>

\* A later tick: wait for the poll interval, then check()
PollNext ==
    /\ poller.started
    /\ now + PollIntervalMinute <= MaxTime
    /\ now' = now + PollIntervalMinute
    /\ LET c == CronTrigger_check(trigger, now')
       IN /\ trigger' = c.trigger
          /\ lastCheck' = check_record(trigger.last_scheduled_fire_time, c)
    /\ poller' = [started |-> TRUE, prev_at |-> now]
    /\ UNCHANGED <<pipelineVars, eventVars, monitorVars>>

\* A schedule trigger polled once per minute.
NextCronMinute ==
    \/ \E cron_expression \in CronExprs : CronConstruct(cron_expression)
    \/ \E d \in Delays : Advance(d)
    \/ PollFirst
    \/ PollNext

SpecCronMinute == InitCron /\ [][NextCronMinute]_vars

\* An event-capable trigger called in any order.
InitEvent == InitPipelineIdle /\ InitCronIdle /\ InitEventIdle /\ InitMonitorIdle

NextEvent ==
    \/ \E path \in PathArgs, patterns \in PatternArgs, recursive \in BOOLEAN,
          watch_creation \in BOOLEAN, watch_modification \in BOOLEAN :
          FileConstruct(path, patterns, recursive, watch_creation, watch_modification)
    \/ \E endpoint \in EndpointArgs, methods \in MethodArgs :
          WebhookConstruct(endpoint, methods)
    \/ \E event \in Events : MatchesEvent(event)
    \/ \E event \in Events : SetTriggeredEvent(event)
    \/ \E flask_request \in Requests : SetTriggeredRequest(flask_request)
    \/ GetRunParameters

SpecEvent == InitEvent /\ [][NextEvent]_vars

\* The producers of a running monitor: the poll thread in its loop and the
\* listener taking requests, over registries loaded before start().
InitDispatch ==
    /\ InitPipelineIdle
    /\ InitCronIdle
    /\ InitEventIdle
    /\ pipeline_registry \in PipelineRegistries
    /\ trigger_registry \in TriggerRegistries
    /\ monitor = MonitorRunning(trigger_registry)
    /\ poll = [NoPoll EXCEPT !.pc = "tick"]
    /\ http = [NoHttp EXCEPT !.pc = IF monitor._flask_server = "None" THEN "None" ELSE "idle"]
    /\ handlers = NoHandlers
    /\ previous = NoPrevious
    /\ InitFileIdle

NextDispatch ==
    \/ PollTick
    \/ \E outcome \in CheckOutcomes : PollCheck(outcome)
    \/ PollDispatchCall
    \/ \E fn \in StepFuncs : PollRunStep(fn)
    \/ PollRunEnd
    \/ PollDispatchReturn
    \/ PollWait
    \/ \E k \in 1..MaxTriggers, flask_request \in MonitorRequests : HttpRequest(k, flask_request)
    \/ HttpDispatchCall
    \/ \E fn \in StepFuncs : HttpRunStep(fn)
    \/ HttpRunEnd
    \/ HttpRespond

SpecDispatch == InitDispatch /\ [][NextDispatch]_vars

\* The listener of a running monitor with its request threads, over
\* registries of HTTP triggers loaded before start(): two triggers on the
\* path /run, and one on a path of its own
ListenerTriggerObjects ==
    {WebhookTrigger_init("webhook1", "q", <<"/", "r", "u", "n">>, <<>>).trigger,
     WebhookTrigger_init("webhook2", "p", <<"/", "r", "u", "n">>, <<"POST", "GET">>).trigger}

ListenerTriggerRegistries ==
    {r \in SeqsUpTo(ListenerTriggerObjects, MaxMonitorTriggers) : r # <<>>}

\* The requests sent to the listener
ListenerRequests ==
    {r \in Requests :
        \/ r.method = "POST" /\ r.args = "{}" /\ r.data = "{\"run\": 1}"
              /\ r.headers["Content-Type"] = "application/json"
        \/ r.method = "POST" /\ r.args = "{dry: 1}" /\ r.data = ""
              /\ r.headers["Content-Type"] = "text/plain"
        \/ r.method = "GET" /\ r.args = "{dry: 1}" /\ r.data = ""
              /\ r.headers["Content-Type"] = "text/plain"}

InitListener ==
    /\ InitPipelineIdle
    /\ InitCronIdle
    /\ InitEventIdle
    /\ pipeline_registry = ("p" :> Pipeline_p) @@ ("q" :> Pipeline_q_single)
    /\ trigger_registry \in ListenerTriggerRegistries
    /\ monitor = MonitorRunning(trigger_registry)
    /\ poll = NoPoll
    /\ http = NoHttp
    /\ handlers = NoHandlers
    /\ previous = NoPrevious
    /\ InitFileIdle

NextListener ==
    \/ \E t \in 1..MaxHandlers, flask_request \in ListenerRequests : WebReceive(t, flask_request)
    \/ \E t \in 1..MaxHandlers : WebSetTriggeredRequest(t)
    \/ \E t \in 1..MaxHandlers : WebGetRunParameters(t)
    \/ \E t \in 1..MaxHandlers : WebRespond(t)

SpecListener == InitListener /\ [][NextListener]_vars

\* A trigger module being imported: constructor calls with any
\* configuration, each followed by register_trigger when it returned.
InitConstruct == InitPipelineIdle /\ InitCronIdle /\ InitEventIdle /\ InitMonitorIdle

NextConstruct == \E c \in TriggerConfigs : ModuleRegister(c)

SpecConstruct == InitConstruct /\ [][NextConstruct]_vars

\* The calls of the main thread on a monitor: start(), stop() and
\* run_forever() in any order, over any registry of triggers.
LifecycleTriggerRegistries == SeqsUpTo(TriggerObjects \cup FileTriggerObjects, MaxTriggers)

InitLifecycle ==
    /\ InitPipelineIdle
    /\ InitCronIdle
    /\ InitEventIdle
    /\ pipeline_registry = ("p" :> Pipeline_p) @@ ("q" :> Pipeline_q_single)
    /\ trigger_registry \in LifecycleTriggerRegistries
    /\ monitor = NoMonitor
    /\ poll = NoPoll
    /\ http = NoHttp
    /\ handlers = NoHandlers
    /\ previous = NoPrevious
    /\ InitFileIdle

NextLifecycle ==
    \/ MainStart
    \/ MainStop
    \/ RunForeverCall
    \/ \E exit \in RunForeverExits : RunForeverExit(exit)
    \/ ExternalStop

SpecLifecycle == InitLifecycle /\ [][NextLifecycle]_vars

\* The threads of a monitor that start() has started, until stop(): the
\* poll thread, the file thread and the observer feeding it. The
\* registries hold no HTTP trigger.
MonitorTriggerRegistries ==
    SeqsUpTo({PollTrigger("poll1", "p")} \cup FileTriggerObjects, MaxMonitorTriggers)

MonitorPipelineRegistries ==
    {("p" :> Pipeline_p) @@ ("q" :> Pipeline_q_single)}

InitMonitor ==
    /\ InitPipelineIdle
    /\ InitCronIdle
    /\ InitEventIdle
    /\ pipeline_registry \in MonitorPipelineRegistries
    /\ trigger_registry \in MonitorTriggerRegistries
    /\ LET s == TriggerMonitor_start(NoMonitor, trigger_registry)
           t == threads_started(s.launched, trigger_registry, NoPoll, NoFileLoop, NoPrevious)
       IN /\ monitor = s.monitor
          /\ poll = t.poll
          /\ fileloop = t.fileloop
          /\ main = [NoMain EXCEPT !.op = "start", !.launched = s.launched]
    /\ http = NoHttp
    /\ handlers = NoHandlers
    /\ previous = NoPrevious
    /\ watchdog_event_queue = <<>>

\* What a step function does when a producer thread calls it: it returns
\* or it raises an exception of its own
MonitorStepFuncs == {fn \in StepFuncs : fn.kind \in {"return", "raise"}}

NextMonitor ==
    \/ PollTick
    \/ \E outcome \in CheckOutcomes : PollCheck(outcome)
    \/ PollDispatchCall
    \/ \E fn \in MonitorStepFuncs : PollRunStep(fn)
    \/ PollRunEnd
    \/ PollDispatchReturn
    \/ PollWait
    \/ \E event \in WatcherEvents : WatchdogEvent(event)
    \/ FileLoopTest
    \/ FileLoopGet
    \/ FileLoopTimeout
    \/ FileLoopMatch
    \/ FileDispatchCall
    \/ \E fn \in MonitorStepFuncs : FileRunStep(fn)
    \/ FileRunEnd
    \/ FileDispatchReturn
    \/ MainStop

SpecMonitor == InitMonitor /\ [][NextMonitor]_vars

\* The steps of the poll thread (_poll_triggers)
PollThreadNext ==
    \/ PollTick
    \/ \E outcome \in CheckOutcomes : PollCheck(outcome)
    \/ PollDispatchCall
    \/ \E fn \in MonitorStepFuncs : PollRunStep(fn)
    \/ PollRunEnd
    \/ PollDispatchReturn
    \/ PollWait

\* The steps of the file thread (_process_file_events) other than an
\* iteration of its for loop
FileThreadNext ==
    \/ FileLoopTest
    \/ FileLoopGet
    \/ FileLoopTimeout
    \/ FileDispatchCall
    \/ \E fn \in MonitorStepFuncs : FileRunStep(fn)
    \/ FileRunEnd
    \/ FileDispatchReturn

\* A monitor that is stopped and started again while its threads run: the
\* threads of the current start() step by step, those of earlier start()
\* calls by their place. The registries hold one trigger.
RestartTriggerRegistries ==
    {<<PollTrigger("poll1", "p")>>,
     <<FileWatcherTrigger_init("file1", "q", <<"/", "i", "n">>, <<>>, TRUE, TRUE, TRUE).trigger>>}

\* The events the file system produces while the monitor is restarted
RestartEvents ==
    {[cls |-> "FileCreatedEvent", src_path |-> path_str(<<Name_in>>, Name_csv)]}

InitRestart ==
    /\ InitPipelineIdle
    /\ InitCronIdle
    /\ InitEventIdle
    /\ pipeline_registry \in MonitorPipelineRegistries
    /\ trigger_registry \in RestartTriggerRegistries
    /\ LET s == TriggerMonitor_start(NoMonitor, trigger_registry)
           t == threads_started(s.launched, trigger_registry, NoPoll, NoFileLoop, NoPrevious)
       IN /\ monitor = s.monitor
          /\ poll = t.poll
          /\ fileloop = t.fileloop
          /\ previous = t.previous
          /\ main = [NoMain EXCEPT !.op = "start", !.launched = s.launched]
    /\ http = NoHttp
    /\ handlers = NoHandlers
    /\ watchdog_event_queue = <<>>

NextRestart ==
    \/ PollThreadNext
    \/ FileThreadNext
    \/ FileLoopMatch
    \/ \E event \in RestartEvents : WatchdogEvent(event)
    \/ MainStop
    \/ MainStart
    \/ \E place \in {"busy", "test", "polling"} : PreviousPollStep(place)
    \/ \E place \in {"busy", "test", "get"} : PreviousFileStep(place)

SpecRestart == InitRestart /\ [][NextRestart]_vars

\* A started monitor whose two threads keep being scheduled: every wait
\* and every get() has a timeout, and a step function that is called
\* returns or raises. An iteration of the for loop of the file thread is
\* possible exactly when the thread is at "match", and it changes fileloop
SpecMonitorFair ==
    /\ SpecMonitor
    /\ WF_vars(PollThreadNext)
    /\ WF_vars(FileThreadNext)
    /\ ([]<>(fileloop.pc # "match") \/ []<><<FileLoopMatch>>_vars)

\* ---------------------------------------------------------------------
\* Properties
\* ---------------------------------------------------------------------

\* The registered steps and the dependency edges between them.
Registered == DOMAIN pipeline.steps

DependsOn(s, d) == s \in Registered /\ d \in Registered /\ d \in pipeline.dependencies[s]

\* d is reachable from s along at least one and at most n dependency edges
RECURSIVE DependsWithin(_, _, _)
DependsWithin(s, d, n) ==
    /\ n > 0
    /\ \/ DependsOn(s, d)
       \/ \E m \in Registered : DependsOn(s, m) /\ DependsWithin(m, d, n - 1)

HasCycle == \E s \in Registered : DependsWithin(s, s, Cardinality(Registered))

Index(seq, x) == CHOOSE i \in 1..Len(seq) : seq[i] = x

NoDuplicates(seq) == \A i, j \in 1..Len(seq) : seq[i] = seq[j] => i = j

RunStarted == run.pc # "idle"

StepFailed == run.failed_step # "None"

\* C1: for an acyclic pipeline, run() does not raise a cycle error, its
\* execution order holds every registered step exactly once, the steps are
\* called in that order, every dependency of a called step was called
\* strictly before it, and a run that returns has called every step once.
C1_OrderRespectsDependencies ==
    (RunStarted /\ ~HasCycle) =>
        /\ run.raised # CyclicDependencyError
        /\ Range(run.execution_order) = Registered
        /\ NoDuplicates(run.execution_order)
        /\ run.called = SubSeq(run.execution_order, 1, Len(run.called))
        /\ \A s, d \in Registered :
              (DependsOn(s, d) /\ s \in Range(run.called)) =>
                  /\ d \in Range(run.called)
                  /\ Index(run.called, d) < Index(run.called, s)
        /\ run.pc = "returned" =>
              /\ Range(run.called) = Registered
              /\ Len(run.called) = Cardinality(Registered)

C1_Witness ==
    /\ run.pc = "returned"
    /\ Cardinality(Registered) = 3
    /\ \E s, d \in Registered : s # d /\ DependsOn(s, d)

\* C2: for a pipeline with a dependency cycle, self-dependency included,
\* run() raises CyclicDependencyError, no step function is called and the
\* results stay empty.
C2_CycleRunsNothing ==
    (RunStarted /\ HasCycle) =>
        /\ run.pc = "raised"
        /\ run.raised = CyclicDependencyError
        /\ run.called = <<>>
        /\ run.context.results = <<>>

C2_Witness ==
    /\ run.raised = CyclicDependencyError
    /\ \E s \in Registered : DependsOn(s, s)

\* C3: once a step has failed, the run has raised, the failing step is the
\* last one called, no later step of the order was called, and the results
\* hold exactly the steps before the failing one, the failing step excluded.
C3_FailFast ==
    StepFailed =>
        /\ run.pc = "raised"
        /\ run.pos <= Len(run.execution_order)
        /\ run.execution_order[run.pos] = run.failed_step
        /\ run.called = SubSeq(run.execution_order, 1, run.pos)
        /\ [i \in 1..Len(run.context.results) |-> run.context.results[i][1]]
              = SubSeq(run.execution_order, 1, run.pos - 1)
        /\ run.failed_step \notin result_keys(run.context.results)

C3_Witness ==
    /\ StepFailed
    /\ run.pos = 2
    /\ Len(run.execution_order) = 3

\* C4: whenever a step has failed, run() raises a StepExecutionError whose
\* step_name is the failing step and whose original_exception is the
\* exception the step function raised.
C4_ErrorNamesFailingStep ==
    StepFailed =>
        /\ run.raised.type = "StepExecutionError"
        /\ run.raised.step_name = run.failed_step
        /\ run.raised.original_exception = run.step_raised

\* C5: a run that returns has one result per registered step, keyed by the
\* step name and holding the value the step returned; the context carries
\* the pipeline name, the caller's run id if given, the caller's parameters.
C5_SuccessfulRunContext ==
    run.pc = "returned" =>
        /\ result_keys(run.context.results) = Registered
        /\ Len(run.context.results) = Cardinality(Registered)
        /\ run.context.results = run.returned
        /\ \A i \in 1..Len(run.context.results) :
              run.context.results[i][2] = <<"result of", run.context.results[i][1]>>
        /\ run.context.pipeline_name = pipeline.name
        /\ run.args.run_id # "None" => run.context.run_id = run.args.run_id
        /\ run.args.parameters # "None" => run.context.parameters = run.args.parameters

C5_Witness ==
    /\ run.pc = "returned"
    /\ Cardinality(Registered) = 3
    /\ run.args.run_id = "r1"
    /\ run.args.parameters = "{input_file: data.csv}"

\* C6: an add_step call whose step name is already registered fails and
\* leaves the step map, the dependency map and the reverse map unchanged.
\* (Every step of Spec is an add_step call, recorded in lastAdd'.)
C6_DuplicateNameRejected ==
    [][lastAdd'.name \in DOMAIN pipeline.steps =>
          /\ lastAdd'.raised = "ValueError: already exists"
          /\ pipeline'.steps = pipeline.steps
          /\ pipeline'.dependencies = pipeline.dependencies
          /\ pipeline'.reverse_dependencies = pipeline.reverse_dependencies]_vars

C6_Witness ==
    /\ lastAdd.raised = "ValueError: already exists"
    /\ lastAdd.name \in DOMAIN pipeline.steps
    /\ lastAdd.unknown_deps # {}

\* C7: an add_step call fails whenever some name in depends_on was not a
\* registered step before the call.
C7_UnknownDependencyRejected ==
    lastAdd.unknown_deps # {} => lastAdd.raised # "None"

Scheduled(t) == t % croniter_period(trigger.cron_expression) = 0

MinuteBoundary(t) == t % 60 = 0

FireTime(check) == check.run_info.parameters.scheduled_fire_time_utc

\* C8: on an every-minute schedule polled once per minute, a check()
\* returns a RunRequest exactly when a minute boundary has passed since the
\* previous check() (since construction, for the first), and for that boundary.
C8_OneRequestPerMinuteBoundary ==
    (lastCheck.made /\ poller.started /\ trigger.cron_expression = "* * * * *") =>
        LET elapsed == {b \in (poller.prev_at + 1)..now : MinuteBoundary(b)}
        IN /\ lastCheck.fired <=> elapsed # {}
           /\ lastCheck.fired => FireTime(lastCheck) \in {isoformat(b) : b \in elapsed}

\* C9: a check() made when scheduled instants have passed since the last
\* recorded fire returns one RunRequest, for the earliest of them, and
\* records that instant; a check() with none passed returns nothing.
C9_BacklogDrainsOneInstantPerCall ==
    lastCheck.made =>
        LET due == {t \in (lastCheck.before + 1)..now : Scheduled(t)}
        IN IF due = {}
           THEN /\ ~lastCheck.fired
                /\ trigger.last_scheduled_fire_time = lastCheck.before
           ELSE /\ lastCheck.fired
                /\ \A t \in due : trigger.last_scheduled_fire_time <= t
                /\ trigger.last_scheduled_fire_time \in due
                /\ FireTime(lastCheck) = isoformat(trigger.last_scheduled_fire_time)

C9_Witness ==
    /\ lastCheck.made
    /\ lastCheck.fired
    /\ Cardinality({t \in (lastCheck.before + 1)..now : Scheduled(t)}) >= 2

\* C10: a check() made before the first scheduled instant strictly after
\* the construction time returns nothing.
C10_NoFireBeforeFirstInstant ==
    (lastCheck.made /\ lastCheck.fired) =>
        \E t \in (trigger.created_at + 1)..now : Scheduled(t)

\* The first scheduled instant strictly after t
FirstInstantAfter(t) ==
    CHOOSE i \in (t + 1)..(t + 120) :
        Scheduled(i) /\ \A u \in (t + 1)..(i - 1) : ~Scheduled(u)

\* C11: the first check() that fires after construction at time T reports
\* the first scheduled instant strictly after T as its scheduled fire time
\* and records that instant as last_scheduled_fire_time.
C11_FirstFireIsFirstInstantAfterCreation ==
    (lastCheck.made /\ lastCheck.fired /\ lastCheck.before < trigger.created_at) =>
        /\ FireTime(lastCheck) = isoformat(FirstInstantAfter(trigger.created_at))
        /\ trigger.last_scheduled_fire_time = FirstInstantAfter(trigger.created_at)

\* C12: a check() changes last_scheduled_fire_time if and only if it
\* returns a RunRequest, the new value is the scheduled fire time carried
\* in the RunRequest's parameters, and a check() that returns nothing
\* leaves the trigger as it was. (lastCheck' is made only by a check() step.)
C12_FireTimeAdvancesWithRunRequest ==
    [][lastCheck'.made =>
          /\ (trigger'.last_scheduled_fire_time # trigger.last_scheduled_fire_time)
                 <=> lastCheck'.fired
          /\ lastCheck'.fired =>
                 FireTime(lastCheck') = isoformat(trigger'.last_scheduled_fire_time)
          /\ ~lastCheck'.fired => trigger' = trigger]_vars

C12_Witness ==
    /\ lastCheck.made
    /\ lastCheck.fired
    /\ lastCheck.before >= trigger.created_at
    /\ trigger.last_scheduled_fire_time > lastCheck.before

\* The directory a path names, as path components
DirOf(path) ==
    CHOOSE d \in Directories : path = (IF d = <<>> THEN <<"/">> ELSE path_join(d))

\* The directory holding the file of an event, and the file's name
EventDir(event) ==
    CHOOSE d \in Directories : \E n \in FileNames : event.src_path = path_str(d, n)

EventName(event) ==
    CHOOSE n \in FileNames : \E d \in Directories : event.src_path = path_str(d, n)

\* Directory e is d or lies below d
Below(d, e) == Len(d) <= Len(e) /\ SubSeq(e, 1, Len(d)) = d

InSubdirectory(event) ==
    /\ Below(DirOf(evtrigger.path), EventDir(event))
    /\ EventDir(event) # DirOf(evtrigger.path)

\* The trigger watches events of this class
WatchesClass(cls) ==
    \/ cls = "FileCreatedEvent" /\ evtrigger.watch_creation
    \/ cls = "FileModifiedEvent" /\ evtrigger.watch_modification

\* A configured pattern accepts the name; a trigger without patterns accepts all
PatternAccepts(pattern, name) ==
    \/ pattern = Pattern_csv /\ name = Name_csv
    \/ pattern = Pattern_txt /\ name = Name_txt

PatternsAccept(name) ==
    \/ evtrigger.patterns = <<>>
    \/ \E i \in 1..Len(evtrigger.patterns) : PatternAccepts(evtrigger.patterns[i], name)

\* C13: for a create or modify event on a file in a subdirectory of the
\* watched directory, a non-recursive trigger returns false, and a recursive
\* trigger returns true when it watches the event type and its patterns
\* accept the file name.
C13_SubdirectoryNeedsRecursive ==
    (/\ lastCall.op = "matches_event"
     /\ lastCall.event.cls \in {"FileCreatedEvent", "FileModifiedEvent"}
     /\ InSubdirectory(lastCall.event)) =>
        IF evtrigger.recursive
        THEN lastCall.result <=>
                (WatchesClass(lastCall.event.cls) /\ PatternsAccept(EventName(lastCall.event)))
        ELSE ~lastCall.result

C13_Witness ==
    /\ lastCall.op = "matches_event"
    /\ InSubdirectory(lastCall.event)
    /\ evtrigger.recursive
    /\ evtrigger.patterns # <<>>
    /\ lastCall.result

\* C14: matches_event returns true only for an event whose file lies in
\* the watched directory (directly when non-recursive, at any depth when
\* recursive) and whose name a configured pattern accepts; a file in another
\* directory whose path begins with the watched path is not matched.
C14_MatchOnlyInsideWatchedDirectory ==
    (lastCall.op = "matches_event" /\ lastCall.result) =>
        /\ IF evtrigger.recursive
           THEN Below(DirOf(evtrigger.path), EventDir(lastCall.event))
           ELSE EventDir(lastCall.event) = DirOf(evtrigger.path)
        /\ PatternsAccept(EventName(lastCall.event))

\* An event or request is stored on the trigger
Stored(trg) ==
    IF trg.kind = "file"
    THEN trg._triggered_event # NoEvent
    ELSE trg._triggered_request_data # NoRequestData

\* The run parameters that carry the stored event or request of a trigger
ParametersOfStored(trg) ==
    IF trg.kind = "file"
    THEN [trigger_id |-> trg.trigger_id,
          event_type |-> event_type(trg._triggered_event.cls),
          src_path |-> trg._triggered_event.src_path]
    ELSE [trigger_id |-> trg.trigger_id,
          method |-> trg._triggered_request_data.method,
          endpoint |-> trg._triggered_request_data.endpoint,
          args |-> trg._triggered_request_data.args,
          headers |-> trg._triggered_request_data.headers,
          data |-> trg._triggered_request_data.data,
          json_data |-> trg._triggered_request_data.json_data]

\* C15: get_run_parameters() on a trigger holding a stored event or request
\* returns that event's data with the trigger id and clears it; on a trigger
\* holding none it returns only the trigger id and changes nothing.
\* (lastCall'.op is "get_run_parameters" only in a get_run_parameters() step.)
C15_OneShotParameters ==
    [][lastCall'.op = "get_run_parameters" =>
          IF Stored(evtrigger)
          THEN /\ lastCall'.params = ParametersOfStored(evtrigger)
               /\ ~Stored(evtrigger')
          ELSE /\ lastCall'.params = [trigger_id |-> evtrigger.trigger_id]
               /\ evtrigger' = evtrigger]_vars

C15_Witness ==
    /\ lastCall.op = "get_run_parameters"
    /\ DOMAIN lastCall.params # {"trigger_id"}
    /\ ~Stored(evtrigger)

C17_ResponseAfterDispatchResolves ==
    [][(http'.pc = "responded" /\ http.pc # "responded") =>
          /\ http.d.pc = "done"
          /\ http.d.outcome \in {"not_found", "completed", "failed"}
          /\ http.d.run.pc \in {"idle", "returned", "raised"}
          /\ http'.d = http.d]_vars

C17_Witness ==
    /\ http.pc = "responded"
    /\ http.d.outcome = "completed"
    /\ http.d.run.called # <<>>

\* A _run_pipeline call about to look up a pipeline that is not registered
MissingPipeline(d) ==
    d.pc = "call" /\ d.run_info.pipeline_name \notin DOMAIN pipeline_registry

\* C18: a _run_pipeline call for a pipeline name that is not in the
\* registry returns without an engine run and without an exception, leaves
\* both registries and the monitor's lifecycle fields as they were, and the
\* producer goes on: the poll loop to its next trigger, view_func to its
\* response outside the except clause.
C18_MissingPipelineDropped ==
    [][/\ (MissingPipeline(poll.d) /\ poll' # poll) =>
             /\ poll'.d.pc = "done"
             /\ poll'.d.run = NoRun
             /\ poll'.d.raised = NoError
             /\ pipeline_registry' = pipeline_registry
             /\ trigger_registry' = trigger_registry
             /\ monitor' = monitor
       /\ (poll.d.outcome = "not_found" /\ poll' # poll) =>
             /\ poll'.pc = "check"
             /\ poll'.i = poll.i + 1
       /\ (MissingPipeline(http.d) /\ http' # http) =>
             /\ http'.d.pc = "done"
             /\ http'.d.run = NoRun
             /\ http'.d.raised = NoError
             /\ pipeline_registry' = pipeline_registry
             /\ trigger_registry' = trigger_registry
             /\ monitor' = monitor
       /\ (http.pc = "dispatch" /\ http.d.outcome = "not_found" /\ http' # http) =>
             /\ http'.pc = "responded"
             /\ http'.response.status_code # 500]_vars

C18_Witness ==
    /\ poll.pc = "dispatch"
    /\ poll.d.outcome = "not_found"
    /\ http.pc = "responded"
    /\ http.d.outcome = "not_found"

\* The engine run of a _run_pipeline call has raised
RunFailed(d) == d.pc = "running" /\ d.run.pc = "raised"

\* C19: when the engine run of a _run_pipeline call has raised (cycle
\* error or step failure), the call ends without an exception and the
\* producer goes on: the poll loop to the next trigger of the tick,
\* view_func to its response; the other producer is left as it was.
C19_EngineFailureContained ==
    [][/\ (RunFailed(poll.d) /\ poll' # poll) =>
             /\ poll'.pc = "dispatch"
             /\ poll'.d.pc = "done"
             /\ poll'.d.raised = NoError
             /\ http' = http
       /\ (poll.d.outcome = "failed" /\ poll' # poll) =>
             /\ poll'.pc = "check"
             /\ poll'.i = poll.i + 1
             /\ http' = http
       /\ (RunFailed(http.d) /\ http.pc = "dispatch" /\ http' # http) =>
             /\ http'.pc = "dispatch"
             /\ http'.d.pc = "done"
             /\ http'.d.raised = NoError
             /\ poll' = poll
       /\ (http.pc = "dispatch" /\ http.d.outcome = "failed" /\ http' # http) =>
             /\ http'.pc = "responded"
             /\ poll' = poll]_vars

C19_Witness ==
    /\ poll.pc = "dispatch"
    /\ poll.d.outcome = "failed"
    /\ poll.d.run.raised.type = "StepExecutionError"
    /\ http.pc = "dispatch"
    /\ http.d.outcome = "failed"
    /\ http.d.run.raised = CyclicDependencyError

\* The ids of the registered triggers that the poll loop polls
PollCapable ==
    {trigger_registry[k].trigger_id :
        k \in {j \in 1..Len(trigger_registry) : trigger_registry[j].kind = "poll"}}

\* C20: when a tick of the poll loop ends, check() has been called on
\* every registered poll-capable trigger and every TriggerRunInfo returned
\* has been dispatched, also when a check() raised during the tick.
C20_TickChecksEveryTrigger ==
    poll.pc = "wait" =>
        /\ poll.checked = PollCapable
        /\ poll.fired \subseteq poll.dispatched

\* The path argument names a directory of the file system
NamesDirectory(path) == path \in {<<"/", "i", "n">>, <<"/", "i", "n", "/">>}

\* A configuration the constructors are to reject
InvalidConfiguration(c) ==
    \/ c.trigger_id = ""
    \/ c.pipeline_name = ""
    \/ c.kind = "cron" /\ c.cron_expression = "invalid cron string"
    \/ c.kind = "file" /\ ~NamesDirectory(c.path)
    \/ c.kind = "file" /\ ~c.watch_creation /\ ~c.watch_modification
    \/ c.kind = "webhook" /\ c.endpoint[1] # "/"

\* A registered trigger whose fields hold an invalid configuration
RegisteredInvalid(trg) ==
    \/ trg.trigger_id = ""
    \/ trg.pipeline_name = ""
    \/ "cron_expression" \in DOMAIN trg /\ trg.cron_expression = "invalid cron string"
    \/ "path" \in DOMAIN trg /\ trg.path # <<"/", "i", "n">>
    \/ "path" \in DOMAIN trg /\ ~trg.watch_creation /\ ~trg.watch_modification
    \/ "endpoint" \in DOMAIN trg /\ trg.endpoint[1] # "/"

\* C30: a constructor call with an invalid configuration (empty trigger id
\* or pipeline name, invalid schedule expression, path that is no
\* directory, neither creation nor modification watched, endpoint without
\* a leading "/") raises and registers nothing, so that no registered
\* trigger ever holds an invalid configuration.
C30_InvalidConfigurationRejected ==
    /\ [](\A k \in 1..Len(trigger_registry) : ~RegisteredInvalid(trigger_registry[k]))
    /\ [][\A c \in TriggerConfigs :
             (ModuleRegister(c) /\ InvalidConfiguration(c)) =>
                 (lastCall'.raised # "None" /\ trigger_registry' = trigger_registry)]_vars

\* A trigger is registered, and the last constructor call raised
C30_Witness ==
    /\ Len(trigger_registry) = 2
    /\ lastCall.op = "__init__"
    /\ lastCall.raised = "ValueError: Webhook endpoint must start with '/'"

\* The poll thread has just left the for loop of a tick through an
\* exception of check(): the trigger at hand was checked and did not fire
AfterCheckException ==
    /\ poll.pc = "wait"
    /\ poll.i <= Len(poll.triggers)
    /\ poll.triggers[poll.i].trigger_id \in poll.checked \ poll.fired

\* C21: an exception raised by check() does not end the poll loop. The
\* thread leaves the loop only at the loop test and only with the stop
\* event set; after an exception it waits, and from the wait it goes to
\* the next loop test, which begins another tick when the event is not set.
C21_PollLoopSurvivesCheckException ==
    [][/\ (poll.pc # "stopped" /\ poll'.pc = "stopped") =>
              (poll.pc = "tick" /\ monitor._stop_event)
       /\ (poll.pc = "check" /\ poll.i <= Len(poll.triggers) /\ poll'.pc # "check"
              /\ poll'.pc # "dispatch") => AfterCheckException'
       /\ (AfterCheckException /\ poll' # poll) => poll'.pc = "tick"
       /\ (poll.pc = "tick" /\ ~monitor._stop_event /\ poll' # poll) => poll'.pc = "check"]_vars

\* The thread is waiting after an exception of check(), the stop event not set
C21_Witness ==
    /\ AfterCheckException
    /\ ~monitor._stop_event

\* The registered filesystem triggers, and those of them that match an event
FileTriggerIds ==
    {trigger_registry[k].trigger_id : k \in {j \in 1..Len(trigger_registry) :
                                                trigger_registry[j].kind = "file"}}

MatchingTriggerIds(event) ==
    {trigger_registry[k].trigger_id : k \in {j \in 1..Len(trigger_registry) :
                                                /\ trigger_registry[j].kind = "file"
                                                /\ matches_event(trigger_registry[j], event)}}

\* The RunRequest of the file thread's dispatch is the one of the trigger
\* at hand for the event at hand
FileRequestOfEvent ==
    LET trg == trigger_registry[fileloop.file_triggers[fileloop.i]]
        r == fileloop.d.run_info
    IN /\ r.pipeline_name = trg.pipeline_name
       /\ r.trigger_id = trg.trigger_id
       /\ DOMAIN r.parameters = {"trigger_id", "event_type", "src_path"}
       /\ r.parameters.trigger_id = trg.trigger_id
       /\ r.parameters.event_type = event_type(fileloop.event.cls)
       /\ r.parameters.src_path = fileloop.event.src_path

\* C22: for each event taken from the queue the file loop tests every
\* registered filesystem trigger, and dispatches for exactly the triggers
\* that match one RunRequest each, which names the trigger's pipeline and
\* id and carries the type and the path of this event.
C22_EveryMatchDispatched ==
    /\ [](fileloop.pc = "dispatch" => FileRequestOfEvent)
    /\ [][/\ (fileloop.pc = "match" /\ fileloop'.pc = "loop") =>
                /\ fileloop.tested = FileTriggerIds
                /\ fileloop.matched = MatchingTriggerIds(fileloop.event)
                /\ fileloop.dispatched = fileloop.matched
          /\ (fileloop.pc = "dispatch" /\ fileloop'.pc = "match") =>
                /\ fileloop'.i = fileloop.i + 1
                /\ fileloop.d.run_info.trigger_id \in fileloop.dispatched
          /\ (fileloop.pc = "match" /\ fileloop'.pc = "dispatch") =>
                fileloop'.d.run_info.trigger_id \notin fileloop.dispatched]_vars

\* An event has gone through the for loop and two triggers were dispatched
C22_Witness ==
    /\ fileloop.pc = "loop"
    /\ fileloop.event # NoEvent
    /\ Cardinality(fileloop.dispatched) = 2
    /\ fileloop.tested = FileTriggerIds

\* The file thread takes an entry from the queue in this step
TakesEntry == fileloop.pc = "get" /\ fileloop'.pc # "get" /\ fileloop'.pc # "loop"

\* C28: the file thread processes events in the order they were enqueued.
\* An entry is put behind the entries that wait, the thread takes the
\* entry that has waited longest, and it takes one only when every
\* dispatch of the event before is over; a dispatch in progress is for
\* the event taken last.
C28_EventsInArrivalOrder ==
    /\ [](fileloop.pc = "dispatch" =>
               fileloop.d.run_info.parameters.src_path = fileloop.event.src_path)
    /\ [][/\ watchdog_event_queue' # watchdog_event_queue =>
                \/ /\ TakesEntry
                   /\ watchdog_event_queue' = Tail(watchdog_event_queue)
                \/ /\ Len(watchdog_event_queue') = Len(watchdog_event_queue) + 1
                   /\ SubSeq(watchdog_event_queue', 1, Len(watchdog_event_queue)) =
                          watchdog_event_queue
                   /\ fileloop' = fileloop
          /\ TakesEntry =>
                /\ fileloop'.pc = "match" => fileloop'.event = Head(watchdog_event_queue)
                /\ fileloop'.pc # "match" => Head(watchdog_event_queue) = NoEvent
                /\ fileloop.d = NoDispatch
                /\ fileloop.dispatched = fileloop.matched
                /\ fileloop.event # NoEvent =>
                       fileloop.matched = MatchingTriggerIds(fileloop.event)
          /\ fileloop'.event # fileloop.event => TakesEntry]_vars

\* The thread is at work on an event while a different, later event waits
C28_Witness ==
    /\ fileloop.pc = "dispatch"
    /\ fileloop.dispatched # {}
    /\ watchdog_event_queue # <<>>
    /\ Head(watchdog_event_queue) \notin {NoEvent, fileloop.event}

\* The run of a dispatch wrote results only for steps of the pipeline its
\* request names, into a context made for that pipeline and those
\* parameters, and all of them if it completed
OwnResultsOnly(d) ==
    (d.pc \in {"running", "done"} /\ d.outcome # "not_found") =>
        LET p == pipeline_registry[d.run_info.pipeline_name]
        IN /\ d.run.context.pipeline_name = d.run_info.pipeline_name
           /\ d.run.context.parameters = d.run_info.parameters
           /\ result_keys(d.run.context.results) \subseteq DOMAIN p.steps
           /\ d.outcome = "completed" => result_keys(d.run.context.results) = DOMAIN p.steps
           /\ d.outcome = "failed" => d.run.raised # NoError

\* C27: runs that two producers have under way at the same time, for two
\* different pipelines, each keep to their own context: a context holds
\* results only for steps of its own pipeline, a step of one run changes
\* nothing of the other, and a run ends failed only through an error of
\* its own and otherwise completes with all its results.
C27_ConcurrentRunsKeepOwnContext ==
    /\ [](OwnResultsOnly(poll.d) /\ OwnResultsOnly(fileloop.d))
    /\ [][/\ poll'.d # poll.d => fileloop' = fileloop
          /\ fileloop'.d # fileloop.d => poll' = poll]_vars

\* Two runs for different pipelines are under way at the same time, and
\* each has written a result
C27_Witness ==
    /\ run_in_progress(poll.d)
    /\ fileloop.d.pc = "running"
    /\ poll.d.run_info.pipeline_name # fileloop.d.run_info.pipeline_name
    /\ Len(poll.d.run.context.results) = 1
    /\ Len(fileloop.d.run.context.results) = 1

\* The engine run of dispatch d has ended as the engine ends it: returned
\* after its last step, or raised by a step or by the ordering
EndedByEngine(d) ==
    \/ d.run.pc = "raised"
    \/ d.run.pos > Len(d.run.execution_order)

\* A dispatch that is over whose run was under way when stop() was called
FinishedAfterStop(d) ==
    /\ d.pc = "done"
    /\ d.run_info.trigger_id \in main.in_flight

\* C26: stop() does not interrupt an engine run. The call changes nothing
\* of the producer threads; a run under way ends only as the engine ends
\* it, after its last step or at a failing step; a thread leaves its loop
\* only between dispatches; and a run that was under way when stop() was
\* called completes with a result for every step unless a step failed.
C26_StopLeavesRunsAlone ==
    /\ [](\A d \in {poll.d, fileloop.d} :
             FinishedAfterStop(d) =>
                 \/ d.outcome = "completed" /\
                       Len(d.run.context.results) = Len(d.run.execution_order)
                 \/ d.outcome = "failed" /\ d.run.failed_step # "None")
    /\ [][/\ monitor' # monitor => (poll' = poll /\ fileloop' = fileloop)
          /\ (poll.d.pc = "running" /\ poll'.d.pc # "running") => EndedByEngine(poll.d)
          /\ (fileloop.d.pc = "running" /\ fileloop'.d.pc # "running") =>
                EndedByEngine(fileloop.d)
          /\ (poll.pc # "stopped" /\ poll'.pc = "stopped") => poll.d.pc = "idle"
          /\ (fileloop.pc \notin {"stopped", "died"} /\ fileloop'.pc \in {"stopped", "died"}) =>
                fileloop.d.pc \in {"idle", "done"}]_vars

\* A run of two steps that had written no result when stop() was called
\* has completed in the poll thread, one of the file thread likewise
C26_Witness ==
    /\ monitor._stop_event
    /\ FinishedAfterStop(poll.d)
    /\ poll.d.outcome = "completed"
    /\ FinishedAfterStop(fileloop.d)
    /\ fileloop.d.outcome = "completed"

\* The poll loop has left its while loop
PollLoopExited == poll.pc = "stopped"

\* The file loop has left its while loop, or was never started
FileLoopExited == fileloop.pc \in {"None", "stopped", "died"}

\* C25: a stop() call on a running monitor sets the stop event, puts the
\* sentinel at the tail of the event queue when an observer was running,
\* and leaves no observer and no server; a loop that has exited takes up
\* no tick and no queue entry afterwards; and once the stop event is set
\* the poll loop and the file loop both exit.
C25_StopEndsLoops ==
    /\ [][/\ monitor' # monitor =>
                /\ monitor'._stop_event
                /\ monitor'._flask_server = "None"
                /\ monitor'._watchdog_observer = "None"
                /\ monitor._watchdog_observer # "None" =>
                      watchdog_event_queue' = Append(watchdog_event_queue, NoEvent)
          /\ PollLoopExited => poll' = poll
          /\ (FileLoopExited /\ fileloop.pc # "None") =>
                /\ fileloop' = fileloop
                /\ Len(watchdog_event_queue') >= Len(watchdog_event_queue)]_vars
    /\ (monitor._stop_event ~> (PollLoopExited /\ FileLoopExited))

\* stop() was called during an engine run, the file loop has taken the
\* sentinel, and both loops have exited
C25_Witness ==
    /\ monitor._stop_event
    /\ main.in_flight # {}
    /\ poll.pc = "stopped"
    /\ fileloop.pc = "stopped"
    /\ watchdog_event_queue = <<>>

\* A trigger of the given kind is registered
RegisteredKind(kind) == \E k \in DOMAIN trigger_registry : trigger_registry[k].kind = kind

\* The step is a call of start() by the main thread on a monitor that
\* tracks no thread
StartsFromStopped ==
    /\ main.pc = "idle"
    /\ main'.op = "start"
    /\ main' # main \/ monitor' # monitor
    /\ monitor._threads = <<>>

\* The step is a call of start() by the main thread on a monitor that
\* tracks a thread
StartsWhileRunning ==
    /\ main.pc = "idle"
    /\ main'.op = "start"
    /\ monitor._threads # <<>>

\* C23: start() starts the observer and the file thread only when a
\* FileWatcherTrigger is registered, the server and its thread only when
\* a WebhookTrigger is registered, and the poll thread always.
C23_StartLaunchesProducers ==
    [][StartsFromStopped =>
          /\ ~RegisteredKind("file") =>
                /\ monitor'._watchdog_observer = "None"
                /\ "file_thread" \notin Range(main'.launched)
          /\ ~RegisteredKind("webhook") =>
                /\ monitor'._flask_server = "None"
                /\ "server_thread" \notin Range(main'.launched)
          /\ "poll_thread" \in Range(main'.launched)]_vars

\* C24: start() on a monitor that is running changes nothing: it starts
\* no thread, no observer and no server, and the stop event stays as it
\* was.
C24_StartTwiceNoEffect ==
    [][StartsWhileRunning =>
          /\ monitor' = monitor
          /\ main'.launched = <<>>
          /\ main'.raised = NoError
          /\ poll' = poll
          /\ fileloop' = fileloop
          /\ watchdog_event_queue' = watchdog_event_queue]_vars

\* start() was called on a monitor whose poll thread was running, and
\* started nothing
C24_Witness ==
    /\ main.op = "start"
    /\ main.launched = <<>>
    /\ main.raised = NoError
    /\ "poll_thread" \in Range(monitor._threads)
    /\ ~monitor._stop_event

\* C29: when run_forever() is over, stop() has been called by it, and the
\* monitor holds no observer, no server and no tracked thread.
C29_RunForeverStopsOnEveryExit ==
    (main.op = "run_forever" /\ main.pc = "idle") =>
        /\ main.stop_calls >= 1
        /\ monitor._watchdog_observer = "None"
        /\ monitor._flask_server = "None"
        /\ monitor._threads = <<>>

\* C31: add_step given a function decorated with @step registers the Step
\* attached to it under that Step's name, unless the name is taken or a
\* dependency is unknown; given a function that is not decorated, or a
\* value that is not callable, it raises TypeError and registers nothing.
C31_DecoratedFunctionRegistered ==
    [][(lastAdd' # lastAdd /\ "obj" \in DOMAIN lastAdd') =>
          LET obj == lastAdd'.obj
              attached == get_step_from_decorated_func(obj)
          IN /\ (attached # NoStep /\ attached.name \notin DOMAIN pipeline.steps
                                  /\ lastAdd'.unknown_deps = {}) =>
                   /\ lastAdd'.raised = "None"
                   /\ attached.name \in DOMAIN pipeline'.steps
                   /\ pipeline'.steps[attached.name] = attached
             /\ (obj.cls # "Step" /\ attached = NoStep) =>
                   /\ lastAdd'.raised = "TypeError"
                   /\ pipeline' = pipeline]_vars

\* The keys of the results, in the order they were written
ResultKeySeq(results) == [i \in 1..Len(results) |-> results[i][1]]

\* C32: at every point of a run the keys of the results are the steps
\* whose function has returned in this run, in execution order and each
\* once; a step of the run leaves the entries written before it as they
\* were and adds at most one.
C32_ResultsAreCompletedSteps ==
    /\ [](run.pc # "idle" =>
            /\ run.context.results = run.returned
            /\ ResultKeySeq(run.context.results) =
                  SubSeq(run.execution_order, 1, Len(run.context.results))
            /\ Cardinality(result_keys(run.context.results)) = Len(run.context.results)
            /\ run.failed_step \notin result_keys(run.context.results))
    /\ [][run.pc = "running" =>
            LET old == run.context.results
                new == run'.context.results
            IN /\ Len(new) \in {Len(old), Len(old) + 1}
               /\ SubSeq(new, 1, Len(old)) = old]_vars

\* In the middle of a run of three steps, two have completed
C32_Witness ==
    /\ run.pc = "running"
    /\ Len(run.execution_order) = 3
    /\ Len(run.context.results) = 2
    /\ run.pos = 3

\* Every name of the dependency map is a registered step
DependenciesRegistered(p) ==
    /\ DOMAIN p.dependencies \subseteq DOMAIN p.steps
    /\ \A s \in DOMAIN p.dependencies : p.dependencies[s] \subseteq DOMAIN p.steps

\* C33: an add_step call that fails because of an unknown dependency
\* leaves the step map, the dependency map and the reverse map as they
\* were, and every name of the dependency map is a registered step.
C33_FailedAddLeavesPipelineUnchanged ==
    /\ [][lastAdd'.raised = "ValueError: dependency not found" => pipeline' = pipeline]_vars
    /\ []DependenciesRegistered(pipeline)

\* Step d is in the dependency set of step s exactly when s is in the
\* reverse-dependency set of d
AdjacencyConsistent(p) ==
    \A s, d \in Names :
        (s \in DOMAIN p.dependencies /\ d \in p.dependencies[s]) <=>
        (d \in DOMAIN p.reverse_dependencies /\ s \in p.reverse_dependencies[d])

\* C34: after any sequence of add_step calls, failed ones included, the
\* dependency map and the reverse-dependency map describe the same edges.
C34_AdjacencyMapsConsistent == AdjacencyConsistent(pipeline)

Reachable(k) ==
    \E flask_request \in Requests : route(trigger_registry, flask_request).k = k

PollLoopsPolling ==
    (IF poll.pc \in {"None", "stopped", "tick"} THEN {} ELSE {"current"})
    \cup (previous.poll \cap {"polling"})

\* C36: across any sequence of start() and stop() calls at most one poll
\* loop is alive and polling; stop() followed by start() while the loop of
\* the earlier start() is inside a run does not lead to two poll loops.
C36_AtMostOnePollLoop ==
    Cardinality(PollLoopsPolling) <= 1

\* C37: after stop() and a new start() of a monitor with filesystem
\* triggers, the file loop of the running monitor has not ended: no
\* sentinel left on the queue by the stop() before makes it break.
C37_NewFileLoopKeepsRunning ==
    monitor._watchdog_observer # "None" => fileloop.pc # "stopped"

\* The filesystem triggers of the registry that match an event of their
\* own directory tree
MatchingFileTriggers(event) ==
    {k \in 1..Len(trigger_registry) :
        /\ trigger_registry[k].kind = "file"
        /\ startswith(event.src_path, trigger_registry[k].path \o <<"/">>)
        /\ matches_event(trigger_registry[k], event)}

\* C38: the watches of a started monitor are scheduled so that every
\* event a registered filesystem trigger matches is delivered to the
\* handler that puts it on the queue, also an event in a subdirectory
\* matched by a recursive trigger whose directory an earlier
\* non-recursive trigger watches as well.
C38_MatchedEventsAreDelivered ==
    monitor._watchdog_observer # "None" =>
        \A event \in WatcherEvents :
            MatchingFileTriggers(event) # {} => observer_emits(monitor.watches, event)

====
